---- MODULE Spec2Model ----
(***************************************************************************)
(* Model of the hierarchical state machine core of state_machine.c and of  *)
(* the adapters state_machine_rtt.c and state_machine_rt.c.                *)
(*                                                                         *)
(* The machine instance (struct SM_StateMachine), the caller's entry-path  *)
(* buffer and the application data the callbacks touch are the state, with *)
(* the adapter instance that embeds the machine (rtt) and the constant     *)
(* state tables (tables). Every function of state_machine.c is an operator *)
(* that takes the execution context                                        *)
(*     c = [sm, buf, app, trace, taken, xfer, req, calls]                  *)
(* and returns the context after the call: trace is the sequence of        *)
(* callbacks the call invoked, each with a snapshot of the instance fields *)
(* at the time of the call; taken lists the table entries                  *)
(* execute_transition was given; xfer holds, per nesting level of          *)
(* SM_Dispatch, the transition in progress; req is the SM_Dispatch call a  *)
(* callback has just made, and calls the stack of such calls and of the    *)
(* entry loops that wait for them.                                         *)
(* The state tables are those of examples/test_state_machine.c,            *)
(* examples/post_state.c and examples/posix_app.c, plus a three-level      *)
(* table set that exercises the transition shapes the examples do not      *)
(* contain, a chain of MaxDepth states with entry actions, and a table set *)
(* whose states have actions of their own, one of which dispatches.        *)
(* The specifications: Spec (the core), SpecApp (posix_app.c), SpecAdapter *)
(* (the calls of the adapters, each as a whole), SpecThreads (a started    *)
(* instance, with the worker thread and one thread of the application      *)
(* interleaved step by step; thr holds their positions and locals),        *)
(* SpecLca, SpecNest and SpecPath (a machine set up deep in the chain,     *)
(* with entry path buffers of up to 255 slots).                            *)
(***************************************************************************)
EXTENDS Integers, Sequences, FiniteSets, TLC

VARIABLES sm, buf, app, last, pc, rtt, tables, thr

vars == <<sm, buf, app, last, pc, rtt, tables, thr>>

(* ------------------------------------------------------------------ *)
(* Bounds                                                              *)
(* ------------------------------------------------------------------ *)

\* largest bufferSize (and array length) a caller hands to SM_Init
MaxBuf == 3

\* cap on the counters post_step and run_error_count of posix_app.c, unbounded
\* ints in the source
MaxCount == 6

\* consecutive SM_Reset calls that are told apart (more count as MaxStreak)
MaxStreak == 2

\* largest pointed-to value of an event context (0 is the null context)
MaxCtx == 2

\* depth of the deepest hierarchy find_lca is applied to
MaxDepth == 256

\* iterations of a loop over a parent chain that are evaluated in one piece
Block == 16

(* ------------------------------------------------------------------ *)
(* Null pointers, events                                               *)
(* ------------------------------------------------------------------ *)

NULL == "NULL"

\* the null event pointer that SM_Init and SM_Reset pass down
NoEvent == [id |-> -1, context |-> 0]

\* examples/test_state_machine.c, enum of events
EV_POWER_ON == 0
EV_START_TASK == 1
EV_TASK_COMPLETE == 2
EV_POWER_OFF == 3

\* examples/post_state.c, enum of events
EV_POST_START == 0
EV_POST_BREAKON == 1
EV_POST_BREAKOFF == 2
EV_POST_ANSWER == 3

\* sm_event_t of posix_app.c
SM_EVENT_POWER_ON == 1
SM_EVENT_POST_STEP_OK == 2
SM_EVENT_POST_STEP_FAIL == 3
SM_EVENT_POST_RETRY == 4
SM_EVENT_POST_DONE == 5
SM_EVENT_ENTER_RUN == 6
SM_EVENT_RUN_ERROR == 7
SM_EVENT_ENTER_MAINT == 8
SM_EVENT_EXIT_MAINT == 9
SM_EVENT_ENTER_UPGRADE == 10
SM_EVENT_UPGRADE_DONE == 11
SM_EVENT_RESET == 12
SM_EVENT_SHUTDOWN == 13
SM_EVENT_FORCE_RECOVER == 14

\* the id no table contains (test_state_machine.c dispatches {99, NULL})
EV_UNKNOWN == 99

\* event ids of the three-level table set
HEv == [toSide |-> 0, down |-> 1, guarded |-> 2, up |-> 3, tick |-> 4, self |-> 5]

EventIds == 0 .. 5

\* event ids of the table set whose entry action dispatches
NestEv == [go |-> 0, hop |-> 1, back |-> 2]

\* context: 0 is a null context pointer, k > 0 points to an int holding k
Events == [id : EventIds, context : 0 .. MaxCtx] \cup {[id |-> EV_UNKNOWN, context |-> 0]}

\* the events the main loop of posix_app.c dispatches: any id of sm_event_t, null context
AppEvents == [id : SM_EVENT_POWER_ON .. SM_EVENT_FORCE_RECOVER, context : {0}]

SM_TRANSITION_EXTERNAL == "EXTERNAL"
SM_TRANSITION_INTERNAL == "INTERNAL"

Trans(e, tgt, g, a, ty) ==
    [eventId |-> e, target |-> tgt, guard |-> g, action |-> a, type |-> ty]

StateDef(p, en, ex, tr, nm) ==
    [parent |-> p, entryAction |-> en, exitAction |-> ex, transitions |-> tr, name |-> nm]

(* ------------------------------------------------------------------ *)
(* State tables                                                        *)
(* ------------------------------------------------------------------ *)

\* examples/test_state_machine.c: Off, On { Idle, Running }
TestTables ==
    [ Off     |-> StateDef(NULL, NULL, NULL,
                    <<Trans(EV_POWER_ON, "Idle", NULL, NULL, SM_TRANSITION_EXTERNAL)>>, "Off"),
      On      |-> StateDef(NULL, "entry_On", "exit_On",
                    <<Trans(EV_POWER_OFF, "Off", NULL, "on_power_off", SM_TRANSITION_EXTERNAL)>>, "On"),
      Idle    |-> StateDef("On", "entry_Idle", NULL,
                    <<Trans(EV_START_TASK, "Running", "can_start_task", NULL, SM_TRANSITION_EXTERNAL)>>, "Idle"),
      Running |-> StateDef("On", "entry_Running", "exit_Running",
                    <<Trans(EV_TASK_COMPLETE, "Idle", NULL, "on_task_done", SM_TRANSITION_EXTERNAL)>>, "Running") ]

\* examples/post_state.c: five top-level states
PostTables ==
    [ ROOT      |-> StateDef(NULL, "entry_print", "exit_print",
                      <<Trans(EV_POST_START, "POST", NULL, NULL, SM_TRANSITION_EXTERNAL)>>, "ROOT"),
      POST      |-> StateDef(NULL, "entry_post", "exit_print",
                      <<Trans(EV_POST_BREAKON, "POSTBREAK", NULL, "action_post_break", SM_TRANSITION_EXTERNAL),
                        Trans(EV_POST_ANSWER, "POSTFAIL", "guard_post_fail", "action_post_fail", SM_TRANSITION_EXTERNAL),
                        Trans(EV_POST_ANSWER, "POSTPASS", "guard_post_pass", "action_post_pass", SM_TRANSITION_EXTERNAL)>>,
                      "POST"),
      POSTPASS  |-> StateDef(NULL, "entry_print", "exit_print", <<>>, "POSTPASS"),
      POSTFAIL  |-> StateDef(NULL, "entry_print", "exit_print", <<>>, "POSTFAIL"),
      POSTBREAK |-> StateDef(NULL, "entry_print", "exit_print",
                      <<Trans(EV_POST_BREAKOFF, "POST", NULL, NULL, SM_TRANSITION_EXTERNAL)>>, "POSTBREAK") ]

\* three levels: Top { Mid { LeafA, LeafB }, Side }; Anon is a nameless top-level state
DeepTables ==
    [ Top   |-> StateDef(NULL, "entry_any", "exit_any",
                  <<Trans(HEv.toSide, "Side", NULL, "act_toSide", SM_TRANSITION_EXTERNAL),
                    Trans(HEv.down, "LeafA", NULL, NULL, SM_TRANSITION_EXTERNAL),
                    Trans(HEv.guarded, "Side", NULL, "act_fallback", SM_TRANSITION_EXTERNAL),
                    Trans(HEv.tick, "Side", "guard_ctx2", "act_topTick2", SM_TRANSITION_EXTERNAL),
                    Trans(HEv.tick, "Side", "guard_ctx1", "act_topTick1", SM_TRANSITION_EXTERNAL)>>, "Top"),
      Mid   |-> StateDef("Top", "entry_any", "exit_any",
                  <<Trans(HEv.guarded, "LeafB", "guard_ctx1", "act_guarded", SM_TRANSITION_EXTERNAL),
                    Trans(HEv.guarded, "LeafA", "guard_ctx2", "act_guarded2", SM_TRANSITION_EXTERNAL),
                    Trans(HEv.up, "Top", NULL, NULL, SM_TRANSITION_EXTERNAL),
                    Trans(HEv.tick, "Side", NULL, "act_tick", SM_TRANSITION_INTERNAL)>>, "Mid"),
      LeafA |-> StateDef("Mid", "entry_any", "exit_any",
                  <<Trans(HEv.self, "LeafA", NULL, "act_self", SM_TRANSITION_EXTERNAL),
                    Trans(HEv.toSide, "LeafB", NULL, NULL, SM_TRANSITION_EXTERNAL),
                    Trans(HEv.down, "Mid", "guard_ctx1", "act_alt1", SM_TRANSITION_EXTERNAL),
                    Trans(HEv.down, "LeafB", "guard_ctx2", "act_alt2", SM_TRANSITION_EXTERNAL)>>, "LeafA"),
      LeafB |-> StateDef("Mid", "entry_any", NULL,
                  <<Trans(HEv.up, "LeafA", NULL, "act_sib", SM_TRANSITION_EXTERNAL),
                    Trans(HEv.self, NULL, NULL, "act_nullTarget", SM_TRANSITION_EXTERNAL)>>, "LeafB"),
      Side  |-> StateDef("Top", NULL, "exit_any",
                  <<Trans(HEv.up, "Anon", NULL, NULL, SM_TRANSITION_EXTERNAL),
                    Trans(HEv.self, "Side", "guard_ctx1", NULL, SM_TRANSITION_EXTERNAL),
                    Trans(HEv.tick, NULL, "guard_ctx2", NULL, SM_TRANSITION_INTERNAL)>>, "Side"),
      Anon  |-> StateDef(NULL, "entry_any", "exit_any",
                  <<Trans(HEv.down, "LeafB", NULL, "act_anonDown", SM_TRANSITION_EXTERNAL)>>, NULL) ]

\* Rest, Outer { Leaf, Other }: every action is a function of its own, and the
\* entry action of Outer dispatches NestEv.hop as sm_entry_action does for PowerOn
NestTables ==
    [ Rest  |-> StateDef(NULL, NULL, "exit_rest",
                  <<Trans(NestEv.go, "Leaf", NULL, NULL, SM_TRANSITION_EXTERNAL)>>, "Rest"),
      Outer |-> StateDef(NULL, "entry_outer", "exit_outer",
                  <<Trans(NestEv.back, "Rest", NULL, NULL, SM_TRANSITION_EXTERNAL)>>, "Outer"),
      Leaf  |-> StateDef("Outer", "entry_leaf", "exit_leaf",
                  <<Trans(NestEv.hop, "Other", NULL, NULL, SM_TRANSITION_EXTERNAL)>>, "Leaf"),
      Other |-> StateDef("Outer", "entry_other", "exit_other",
                  <<Trans(NestEv.hop, "Leaf", NULL, NULL, SM_TRANSITION_EXTERNAL)>>, "Other") ]

\* the entry of a table of posix_app.c: no guard but where given, no action, external
AppTrans(e, tgt) == Trans(e, tgt, NULL, NULL, SM_TRANSITION_EXTERNAL)

sm_trans_post_common ==
    <<AppTrans(SM_EVENT_POST_STEP_OK, "sm_state_post_step"),
      Trans(SM_EVENT_POST_STEP_FAIL, "sm_state_post_retry", "sm_guard_post_retry", NULL,
            SM_TRANSITION_EXTERNAL),
      AppTrans(SM_EVENT_POST_STEP_FAIL, "sm_state_post_fail"),
      AppTrans(SM_EVENT_POST_DONE, "sm_state_post_pass")>>

\* the state of posix_app.c with the given parent, table and name; every state
\* has the common entry and exit action
AppState(p, tr, nm) == StateDef(p, "sm_entry_action", "sm_exit_action", tr, nm)

\* examples/posix_app.c: Off, PowerOn { Post { PostStep, PostRetry, PostFail,
\* PostPass } }, Run { RunError }, Maint, Upgrade { UpgradeDone }
AppTables ==
    [ sm_state_off          |-> AppState(NULL,
                                  <<AppTrans(SM_EVENT_POWER_ON, "sm_state_power_on")>>, "Off"),
      sm_state_power_on     |-> AppState(NULL,
                                  <<AppTrans(SM_EVENT_POST_STEP_OK, "sm_state_post_step"),
                                    AppTrans(SM_EVENT_POST_STEP_FAIL, "sm_state_post_fail"),
                                    AppTrans(SM_EVENT_POST_DONE, "sm_state_post_pass")>>, "PowerOn"),
      sm_state_post         |-> AppState("sm_state_power_on", sm_trans_post_common, "Post"),
      sm_state_post_step    |-> AppState("sm_state_post", sm_trans_post_common, "PostStep"),
      sm_state_post_retry   |-> AppState("sm_state_post",
                                  <<AppTrans(SM_EVENT_POST_RETRY, "sm_state_post_step"),
                                    AppTrans(SM_EVENT_POST_STEP_FAIL, "sm_state_post_fail")>>,
                                  "PostRetry"),
      sm_state_post_fail    |-> AppState("sm_state_post",
                                  <<AppTrans(SM_EVENT_RESET, "sm_state_off"),
                                    AppTrans(SM_EVENT_FORCE_RECOVER, "sm_state_post")>>, "PostFail"),
      sm_state_post_pass    |-> AppState("sm_state_post",
                                  <<AppTrans(SM_EVENT_ENTER_RUN, "sm_state_run")>>, "PostPass"),
      sm_state_run          |-> AppState(NULL,
                                  <<AppTrans(SM_EVENT_RUN_ERROR, "sm_state_run_error"),
                                    AppTrans(SM_EVENT_ENTER_MAINT, "sm_state_maint"),
                                    AppTrans(SM_EVENT_ENTER_UPGRADE, "sm_state_upgrade"),
                                    AppTrans(SM_EVENT_SHUTDOWN, "sm_state_off")>>, "Run"),
      sm_state_run_error    |-> AppState("sm_state_run",
                                  <<Trans(SM_EVENT_FORCE_RECOVER, "sm_state_run",
                                          "sm_guard_run_error_limit", NULL, SM_TRANSITION_EXTERNAL),
                                    AppTrans(SM_EVENT_SHUTDOWN, "sm_state_off")>>, "RunError"),
      sm_state_maint        |-> AppState(NULL,
                                  <<AppTrans(SM_EVENT_EXIT_MAINT, "sm_state_run")>>, "Maint"),
      sm_state_upgrade      |-> AppState(NULL,
                                  <<AppTrans(SM_EVENT_UPGRADE_DONE, "sm_state_upgrade_done")>>,
                                  "Upgrade"),
      sm_state_upgrade_done |-> AppState("sm_state_upgrade",
                                  <<AppTrans(SM_EVENT_RESET, "sm_state_off")>>, "UpgradeDone") ]

\* all tables; they are constant data of the program, which the variable tables
\* holds and no action changes
StateTable == TestTables @@ PostTables @@ DeepTables @@ AppTables

\* the states of the tables a caller using SM_IsInState works with
States == DOMAIN TestTables \cup DOMAIN PostTables \cup DOMAIN DeepTables

\* the states a caller sets a machine up in: STATE_Off (test_state_machine.c),
\* STATE_Root (post_state.c), and the outermost and an innermost state of the
\* three-level tables
InitialStates == {"Off", "ROOT", "Top", "LeafA"}

ParentOf(s) == tables[s].parent


(* ------------------------------------------------------------------ *)
(* Callbacks                                                           *)
(* ------------------------------------------------------------------ *)

\* the int a context pointer points to; the guards of post_state.c read 0 through a null context
CtxVal(event) == event.context

\* the guard functions: can_start_task (test_state_machine.c), guard_post_pass and
\* guard_post_fail (post_state.c), and the context guards of the three-level tables
GuardResult(fn, c, event) ==
    CASE fn = "can_start_task"  -> c.app.tasks_completed < 3
      [] fn = "guard_post_pass" -> (event.id = EV_POST_ANSWER) /\ (CtxVal(event) = 2)
      [] fn = "guard_post_fail" -> (event.id = EV_POST_ANSWER) /\ (CtxVal(event) = 1)
      [] fn = "sm_guard_post_retry"      -> c.app.post_fail_count < 2
      [] fn = "sm_guard_run_error_limit" -> c.app.run_error_count < 3
      [] fn = "guard_ctx1"      -> CtxVal(event) = 1
      [] fn = "guard_ctx2"      -> CtxVal(event) = 2
      [] OTHER                  -> FALSE

\* the call in progress at the current nesting depth (depth 0 is the call made by
\* the caller, depth k + 1 a dispatch made by a callback of depth k): src is the
\* currentState the dispatch or transition started from, tgt the target of the
\* transition, and dist says that a dispatch nested in one of its callbacks has
\* returned with another currentState than it was called with
Frame(c) == c.xfer[Len(c.xfer)]

NoFrame == [src |-> NULL, tgt |-> NULL, dist |-> FALSE]

SetFrame(c, src, tgt) ==
    [c EXCEPT !.xfer[Len(c.xfer)] = [src |-> src, tgt |-> tgt, dist |-> FALSE]]

\* one invoked callback, with the instance fields it could observe and the call
\* it belongs to
Snap(kind, s, idx, fn, event, c) ==
    [kind |-> kind, state |-> s, idx |-> idx, fn |-> fn, ev |-> event,
     cur |-> c.sm.currentState, ud |-> c.sm.userData, hk |-> c.sm.unhandledEventHook,
     depth |-> Len(c.xfer) - 1, src |-> Frame(c).src, tgt |-> Frame(c).tgt,
     dist |-> Frame(c).dist]

\* prototype of state_machine.h, for the callbacks that read the state name
RECURSIVE SM_GetCurrentStateName(_)

\* the bookkeeping of sm_entry_action for the state of the given name
entry_bookkeeping(c, state) ==
    CASE state = "Post"        -> [c EXCEPT !.app.post_step = 0, !.app.post_fail_count = 0]
      [] state = "PostStep"    -> [c EXCEPT !.app.post_step = @ + 1]
      [] state = "PostRetry"   -> [c EXCEPT !.app.post_fail_count = @ + 1]
      [] state = "RunError"    -> [c EXCEPT !.app.run_error_count = @ + 1]
      [] state = "Upgrade"     -> [c EXCEPT !.app.upgrade_flag = 1]
      [] state = "UpgradeDone" -> [c EXCEPT !.app.upgrade_flag = 0]
      [] OTHER -> c

\* the event id sm_entry_action dispatches after its bookkeeping (0: none)
entry_event(c, state) ==
    CASE state = "PowerOn"     -> SM_EVENT_POST_STEP_OK
      [] state = "PostStep"    -> IF c.app.post_step % 2 = 0 THEN SM_EVENT_POST_STEP_FAIL
                                  ELSE IF c.app.post_step < 3 THEN SM_EVENT_POST_STEP_OK
                                  ELSE SM_EVENT_POST_DONE
      [] state = "PostRetry"   -> IF c.app.post_fail_count < 2 THEN SM_EVENT_POST_RETRY
                                  ELSE SM_EVENT_POST_STEP_FAIL
      [] state = "PostPass"    -> SM_EVENT_ENTER_RUN
      [] state = "UpgradeDone" -> SM_EVENT_RESET
      [] OTHER -> 0

\* SM_Event evt = {id, NULL}; SM_Dispatch(sm, &evt); as the last statement of a
\* callback: the call is noted in req, and made when the callback has returned
dispatch_event(c, state) ==
    IF entry_event(c, state) = 0
    THEN c
    ELSE [c EXCEPT !.req = [id |-> entry_event(c, state), context |-> 0]]

\* sm_entry_action of posix_app.c: the common entry action, which tells the
\* states apart by the name of the current state
sm_entry_action(c) ==
    dispatch_event(entry_bookkeeping(c, SM_GetCurrentStateName(c)), SM_GetCurrentStateName(c))

\* the entry action of Outer: SM_Event evt = {hop, NULL}; SM_Dispatch(sm, &evt);
entry_outer(c) == [c EXCEPT !.req = [id |-> NestEv.hop, context |-> 0]]

\* what a callback changes besides printing: on_task_done counts a finished
\* task, sm_entry_action keeps the counters of posix_app.c and dispatches, and
\* entry_outer dispatches
Effect(fn, c) ==
    IF fn = "on_task_done"
    THEN [c EXCEPT !.app.tasks_completed = @ + 1]
    ELSE IF fn = "sm_entry_action"
    THEN sm_entry_action(c)
    ELSE IF fn = "entry_outer"
    THEN entry_outer(c)
    ELSE c

\* fn(sm, event) for an action function pointer (SM_ActionFn)
Call(c, kind, s, idx, fn, event) ==
    Effect(fn, [c EXCEPT !.trace = Append(@, Snap(kind, s, idx, fn, event, c))])

(* ------------------------------------------------------------------ *)
(* Private helpers of state_machine.c                                  *)
(* ------------------------------------------------------------------ *)

\* the largest value of a uint8_t, the type of bufferSize, of the path index and
\* of the depth get_state_depth counts
UINT8_MAX == 255

\* conversion of an integer to int8_t / uint8_t
ToUint8(x) == x % 256

ToInt8(x) == LET y == x % 256 IN IF y >= 128 THEN y - 256 ELSE y

\* the loop of get_state_depth, at most n iterations of it; depth is a uint8_t
RECURSIVE depth_loop(_, _, _)
depth_loop(current_state, depth, n) ==
    IF (n = 0) \/ (current_state = NULL)
    THEN [current_state |-> current_state, depth |-> depth]
    ELSE depth_loop(ParentOf(current_state), ToUint8(depth + 1), n - 1)

\* the loop to its end, Block iterations at a time
RECURSIVE depth_walk(_)
depth_walk(l) ==
    IF l.current_state = NULL THEN l.depth
    ELSE depth_walk(depth_loop(l.current_state, l.depth, Block))

get_state_depth(state) == depth_walk([current_state |-> state, depth |-> 0])

\* what find_lca returns after it has read the parent of a null pointer: any
\* pointer, or nothing when the read ends the program
UNDEFINED == "UNDEFINED"

\* the three loops of find_lca, at most n iterations of them: level p1, level
\* p2, then climb in lockstep. The depths are those get_state_depth has counted
\* in 8 bits; where they are not the true ones the third loop can reach the root
\* with one pointer before the other and read the parent of NULL
RECURSIVE lca_loop(_, _, _, _, _)
lca_loop(p1, p2, depth1, depth2, n) ==
    IF n = 0
    THEN [p1 |-> p1, p2 |-> p2, depth1 |-> depth1, depth2 |-> depth2,
          done |-> FALSE, result |-> NULL]
    ELSE IF depth1 > depth2 THEN lca_loop(ParentOf(p1), p2, depth1 - 1, depth2, n - 1)
    ELSE IF depth2 > depth1 THEN lca_loop(p1, ParentOf(p2), depth1, depth2 - 1, n - 1)
    ELSE IF p1 # p2
    THEN IF (p1 = NULL) \/ (p2 = NULL)
         THEN [p1 |-> p1, p2 |-> p2, depth1 |-> depth1, depth2 |-> depth2,
               done |-> TRUE, result |-> UNDEFINED]
         ELSE lca_loop(ParentOf(p1), ParentOf(p2), depth1, depth2, n - 1)
    ELSE [p1 |-> p1, p2 |-> p2, depth1 |-> depth1, depth2 |-> depth2,
          done |-> TRUE, result |-> p1]

\* the loops to their end, Block iterations at a time
RECURSIVE lca_walk(_)
lca_walk(l) ==
    IF l.done THEN l.result
    ELSE lca_walk(lca_loop(l.p1, l.p2, l.depth1, l.depth2, Block))

\* find_lca that never returns one of its arguments: when one state is an
\* ancestor of the other, it returns the parent of that ancestor
find_lca_strict(s1, s2) ==
    IF (s1 # NULL) /\ (s2 # NULL)
    THEN LET r == lca_walk([p1 |-> s1, p2 |-> s2, depth1 |-> get_state_depth(s1),
                            depth2 |-> get_state_depth(s2), done |-> FALSE, result |-> NULL])
         IN IF r \in {s1, s2} THEN ParentOf(r) ELSE r
    ELSE NULL

find_lca(s1, s2) ==
    IF (s1 # NULL) /\ (s2 # NULL)
    THEN lca_walk([p1 |-> s1, p2 |-> s2, depth1 |-> get_state_depth(s1),
                   depth2 |-> get_state_depth(s2), done |-> FALSE, result |-> NULL])
    ELSE NULL

\* exit walk that starts one level too high and leaves the source state's own
\* exit action out
RECURSIVE exit_walk_from(_, _, _, _)
exit_walk_from(c, exit_iter, lca, event) ==
    IF (exit_iter # NULL) /\ (exit_iter # lca)
    THEN LET c1 == IF tables[exit_iter].exitAction # NULL
                   THEN Call(c, "exit", exit_iter, 0, tables[exit_iter].exitAction, event)
                   ELSE c
         IN exit_walk_from(c1, ParentOf(exit_iter), lca, event)
    ELSE c

execute_exit_actions_skipSource(c, exit_iter, lca, event) ==
    IF (exit_iter # NULL) /\ (exit_iter # lca)
    THEN exit_walk_from(c, ParentOf(exit_iter), lca, event)
    ELSE c

\* exit walk that does not stop at the common ancestor and goes on to the root
execute_exit_actions_toRoot(c, exit_iter, lca, event) ==
    exit_walk_from(c, exit_iter, NULL, event)

RECURSIVE execute_exit_actions(_, _, _, _)
execute_exit_actions(c, exit_iter, lca, event) ==
    IF (exit_iter # NULL) /\ (exit_iter # lca)
    THEN LET c1 == IF tables[exit_iter].exitAction # NULL
                   THEN Call(c, "exit", exit_iter, 0, tables[exit_iter].exitAction, event)
                   ELSE c
         IN execute_exit_actions(c1, ParentOf(exit_iter), lca, event)
    ELSE c

\* the loop of build_entry_path with a capacity check that lets path_idx reach
\* bufferSize
RECURSIVE build_entry_loop_offByOne(_, _, _, _, _)
build_entry_loop_offByOne(c, entry_iter, lca, path_idx, n) ==
    IF (entry_iter # NULL) /\ (entry_iter # lca)
    THEN IF n = 0
         THEN [done |-> FALSE, success |-> TRUE, c |-> c, entry_iter |-> entry_iter,
               path_idx |-> path_idx]
         ELSE IF path_idx <= c.sm.bufferSize
         THEN build_entry_loop_offByOne([c EXCEPT !.buf[path_idx] = entry_iter],
                                        ParentOf(entry_iter), lca, ToUint8(path_idx + 1), n - 1)
         ELSE [done |-> TRUE, success |-> FALSE, c |-> c, entry_iter |-> entry_iter,
               path_idx |-> path_idx]
    ELSE [done |-> TRUE, success |-> TRUE, c |-> c, entry_iter |-> entry_iter,
          path_idx |-> path_idx]

\* the loop of build_entry_path from (entry_iter, path_idx), at most n
\* iterations of it; slots are 0-based as in C; done tells that the loop has ended
RECURSIVE build_entry_loop(_, _, _, _, _)
build_entry_loop(c, entry_iter, lca, path_idx, n) ==
    IF (entry_iter # NULL) /\ (entry_iter # lca)
    THEN IF n = 0
         THEN [done |-> FALSE, success |-> TRUE, c |-> c, entry_iter |-> entry_iter,
               path_idx |-> path_idx]
         ELSE IF path_idx < c.sm.bufferSize
         THEN build_entry_loop([c EXCEPT !.buf[path_idx] = entry_iter],
                               ParentOf(entry_iter), lca, ToUint8(path_idx + 1), n - 1)
         ELSE [done |-> TRUE, success |-> FALSE, c |-> c, entry_iter |-> entry_iter,
               path_idx |-> path_idx]
    ELSE [done |-> TRUE, success |-> TRUE, c |-> c, entry_iter |-> entry_iter,
          path_idx |-> path_idx]

\* the loop to its end, Block iterations at a time
RECURSIVE build_entry_walk(_, _)
build_entry_walk(l, lca) ==
    IF l.done THEN [success |-> l.success, c |-> l.c]
    ELSE build_entry_walk(build_entry_loop(l.c, l.entry_iter, lca, l.path_idx, Block), lca)

\* build_entry_path without the capacity check: the whole path is stored whatever
\* bufferSize says
RECURSIVE build_entry_loop_unchecked(_, _, _, _)
build_entry_loop_unchecked(c, entry_iter, lca, path_idx) ==
    IF (entry_iter # NULL) /\ (entry_iter # lca)
    THEN build_entry_loop_unchecked([c EXCEPT !.buf[path_idx] = entry_iter],
                                    ParentOf(entry_iter), lca, ToUint8(path_idx + 1))
    ELSE [success |-> TRUE, c |-> c]

build_entry_path_unchecked(c, targetState, lca) ==
    build_entry_loop_unchecked(c, targetState, lca, 0)

build_entry_path(c, targetState, lca) ==
    build_entry_walk([done |-> FALSE, success |-> TRUE, c |-> c, entry_iter |-> targetState,
                      path_idx |-> 0], lca)

\* the path_length loop inside perform_transition, at most n iterations of it;
\* path_length is a uint8_t
RECURSIVE path_length_loop(_, _, _, _)
path_length_loop(entry_iter, lca, path_length, n) ==
    IF (n = 0) \/ (entry_iter = NULL) \/ (entry_iter = lca)
    THEN [entry_iter |-> entry_iter, path_length |-> path_length]
    ELSE path_length_loop(ParentOf(entry_iter), lca, ToUint8(path_length + 1), n - 1)

\* the loop to its end, Block iterations at a time
RECURSIVE path_length_walk(_, _)
path_length_walk(l, lca) ==
    IF (l.entry_iter = NULL) \/ (l.entry_iter = lca) THEN l.path_length
    ELSE path_length_walk(path_length_loop(l.entry_iter, lca, l.path_length, Block), lca)

entry_path_length(entry_iter, lca) ==
    path_length_walk([entry_iter |-> entry_iter, path_length |-> 0], lca)

\* the entry action of state st, if it has one
call_entry(c, st, event) ==
    IF tables[st].entryAction # NULL
    THEN Call(c, "entry", st, 0, tables[st].entryAction, event)
    ELSE c

\* the entry action has called SM_Dispatch: the call goes on the call stack, above
\* what its caller does when it returns, which is the entry loop from slot
\* entry_idx downwards
nested_call(c, entry_idx, event) ==
    [c EXCEPT !.req = NoEvent,
              !.calls = @ \o <<[kind |-> "resume", ev |-> event, idx |-> entry_idx,
                                before |-> c.sm.currentState],
                               [kind |-> "call", ev |-> c.req, idx |-> 0, before |-> NULL]>>]

\* the loop of execute_entry_actions from slot entry_idx downwards, at most n
\* iterations of it; entered_block is the rest of an iteration, after the entry
\* action; done tells that the loop has ended or waits for a nested call
RECURSIVE execute_entry_block(_, _, _, _)
entered_block(c, entry_idx, event, n) ==
    IF c.req # NoEvent
    THEN [done |-> TRUE, c |-> nested_call(c, ToInt8(entry_idx - 1), event),
          entry_idx |-> ToInt8(entry_idx - 1)]
    ELSE execute_entry_block(c, ToInt8(entry_idx - 1), event, n - 1)

execute_entry_block(c, entry_idx, event, n) ==
    IF entry_idx >= 0
    THEN IF n = 0
         THEN [done |-> FALSE, c |-> c, entry_idx |-> entry_idx]
         ELSE entered_block(call_entry(c, c.buf[entry_idx], event), entry_idx, event, n)
    ELSE [done |-> TRUE, c |-> c, entry_idx |-> entry_idx]

\* the loop to its end, Block iterations at a time
RECURSIVE execute_entry_walk(_, _)
execute_entry_walk(l, event) ==
    IF l.done THEN l.c
    ELSE execute_entry_walk(execute_entry_block(l.c, l.entry_idx, event, Block), event)

execute_entry_loop(c, entry_idx, event) ==
    execute_entry_walk([done |-> FALSE, c |-> c, entry_idx |-> entry_idx], event)

\* the rest of an iteration of the loop and the iterations that follow
entered(c, entry_idx, event) ==
    IF c.req # NoEvent
    THEN nested_call(c, ToInt8(entry_idx - 1), event)
    ELSE execute_entry_loop(c, ToInt8(entry_idx - 1), event)

\* the entry loop run from slot 0 upwards, innermost state first
RECURSIVE execute_entry_loop_forward(_, _, _, _)
execute_entry_loop_forward(c, entry_idx, path_length, event) ==
    IF entry_idx < path_length
    THEN LET st == c.buf[entry_idx]
             c1 == IF tables[st].entryAction # NULL
                   THEN Call(c, "entry", st, 0, tables[st].entryAction, event)
                   ELSE c
         IN execute_entry_loop_forward(c1, entry_idx + 1, path_length, event)
    ELSE c

execute_entry_actions_forward(c, path_length, event) ==
    execute_entry_loop_forward(c, 0, path_length, event)

\* int8_t entry_idx = (int8_t)path_length - 1
execute_entry_actions(c, path_length, event) ==
    execute_entry_loop(c, ToInt8(ToInt8(path_length) - 1), event)

\* perform_transition without the same_state branch: a self-transition goes
\* through the LCA computation like any other
perform_transition_noSelfCase(c, targetState, event) ==
    IF targetState = NULL THEN c
    ELSE LET sourceState == c.sm.currentState
             lca == find_lca(sourceState, targetState)
             c1 == execute_exit_actions(c, sourceState, lca, event)
             built == build_entry_path(c1, targetState, lca)
         IN IF built.success
            THEN LET path_length == entry_path_length(targetState, lca)
                     c2 == [built.c EXCEPT !.sm.currentState = targetState]
                 IN execute_entry_actions(c2, path_length, event)
            ELSE built.c

\* perform_transition that assigns currentState after the entry actions instead
\* of before them
perform_transition_lateUpdate(c0, targetState, event) ==
    IF targetState = NULL THEN c0
    ELSE LET sourceState == c0.sm.currentState
             c == SetFrame(c0, sourceState, targetState)
         IN
         IF sourceState = targetState
         THEN perform_transition_noSelfCase(c, targetState, event)
         ELSE LET lca == find_lca(sourceState, targetState)
                  c1 == execute_exit_actions(c, sourceState, lca, event)
                  built == build_entry_path(c1, targetState, lca)
              IN IF built.success
                 THEN [execute_entry_actions(built.c, entry_path_length(targetState, lca), event)
                         EXCEPT !.sm.currentState = targetState]
                 ELSE built.c

\* perform_transition that clears currentState when the entry path does not fit
perform_transition_abortClears(c0, targetState, event) ==
    IF targetState = NULL THEN c0
    ELSE LET sourceState == c0.sm.currentState
             c == SetFrame(c0, sourceState, targetState)
         IN
         IF sourceState = targetState
         THEN LET c1 == IF (sourceState # NULL) /\ (tables[sourceState].exitAction # NULL)
                        THEN Call(c, "exit", sourceState, 0, tables[sourceState].exitAction, event)
                        ELSE c
              IN entered(call_entry(c1, targetState, event), 0, event)
         ELSE LET lca == find_lca(sourceState, targetState)
                  c1 == execute_exit_actions(c, sourceState, lca, event)
                  built == build_entry_path(c1, targetState, lca)
              IN IF built.success
                 THEN execute_entry_actions([built.c EXCEPT !.sm.currentState = targetState],
                                            entry_path_length(targetState, lca), event)
                 ELSE [built.c EXCEPT !.sm.currentState = NULL]

perform_transition(c0, targetState, event) ==
    IF targetState = NULL THEN c0
    ELSE LET sourceState == c0.sm.currentState
             c == SetFrame(c0, sourceState, targetState)
         IN
         IF sourceState = targetState
         THEN \* external self-transition: exit then entry on the same state
              LET c1 == IF (sourceState # NULL) /\ (tables[sourceState].exitAction # NULL)
                        THEN Call(c, "exit", sourceState, 0, tables[sourceState].exitAction, event)
                        ELSE c
              IN entered(call_entry(c1, targetState, event), 0, event)
         ELSE LET lca == find_lca(sourceState, targetState)
                  c1 == execute_exit_actions(c, sourceState, lca, event)
                  built == build_entry_path(c1, targetState, lca)
              IN IF built.success
                 THEN LET path_length == entry_path_length(targetState, lca)
                          c2 == [built.c EXCEPT !.sm.currentState = targetState]
                      IN execute_entry_actions(c2, path_length, event)
                 ELSE built.c

\* scan of one table from index i (1-based here, transition_idx + 1): the first
\* entry whose eventId matches ends the scan, whatever its guard says
RECURSIVE find_matching_loop(_, _, _, _)
find_matching_loop(c, state, event, i) ==
    IF i <= Len(tables[state].transitions)
    THEN LET current_transition == tables[state].transitions[i] IN
         IF current_transition.eventId = event.id
         THEN IF current_transition.guard = NULL
              THEN [result |-> i, guard_passed |-> TRUE, c |-> c]
              ELSE [result |-> i,
                    guard_passed |-> GuardResult(current_transition.guard, c, event),
                    c |-> [c EXCEPT !.trace = Append(@, Snap("guard", state, i, current_transition.guard, event, c))]]
         ELSE find_matching_loop(c, state, event, i + 1)
    ELSE [result |-> 0, guard_passed |-> FALSE, c |-> c]

\* result 0 is the null transition pointer
find_matching_transition(c, state, event) ==
    IF (state # NULL) /\ (Len(tables[state].transitions) > 0) /\ (event # NoEvent)
    THEN find_matching_loop(c, state, event, 1)
    ELSE [result |-> 0, guard_passed |-> FALSE, c |-> c]

\* execute_transition that ignores the transition type and always changes state
execute_transition_allExternal(c, owner, idx, event) ==
    LET transition == tables[owner].transitions[idx]
        c0 == [c EXCEPT !.taken = Append(@, <<owner, idx>>)]
        c1 == IF transition.action # NULL
              THEN Call(c0, "action", owner, idx, transition.action, event)
              ELSE c0
    IN [ret |-> TRUE, c |-> perform_transition(c1, transition.target, event)]

\* execute_transition that changes state first and runs the transition's action last
execute_transition_actionLast(c, owner, idx, event) ==
    LET transition == tables[owner].transitions[idx]
        c0 == [c EXCEPT !.taken = Append(@, <<owner, idx>>)]
        c1 == IF transition.type = SM_TRANSITION_INTERNAL
              THEN c0
              ELSE perform_transition(c0, transition.target, event)
    IN [ret |-> TRUE,
        c |-> IF transition.action # NULL
              THEN Call(c1, "action", owner, idx, transition.action, event)
              ELSE c1]

\* owner and idx name the table entry the transition pointer refers to;
\* taken is the log of the entries executed. A function that returns bool yields
\* the record of its return value ret and the context c it leaves
\* execute_transition that reports an external transition without a target as
\* not handled
execute_transition_needsTarget(c, owner, idx, event) ==
    LET transition == tables[owner].transitions[idx]
        c0 == [c EXCEPT !.taken = Append(@, <<owner, idx>>)]
        c1 == IF transition.action # NULL
              THEN Call(c0, "action", owner, idx, transition.action, event)
              ELSE c0
    IN IF transition.type = SM_TRANSITION_INTERNAL
       THEN [ret |-> TRUE, c |-> c1]
       ELSE [ret |-> transition.target # NULL,
             c |-> perform_transition(c1, transition.target, event)]

execute_transition(c, owner, idx, event) ==
    LET transition == tables[owner].transitions[idx]
        c0 == [c EXCEPT !.taken = Append(@, <<owner, idx>>)]
        c1 == IF transition.action # NULL
              THEN Call(c0, "action", owner, idx, transition.action, event)
              ELSE c0
    IN IF transition.type = SM_TRANSITION_INTERNAL
       THEN [ret |-> TRUE, c |-> c1]
       ELSE [ret |-> TRUE, c |-> perform_transition(c1, transition.target, event)]

\* process_state_transitions that executes the matching entry whatever its guard said
process_state_transitions_ignoreGuard(c, state, event) ==
    LET m == find_matching_transition(c, state, event) IN
    IF m.result # 0
    THEN execute_transition(m.c, state, m.result, event)
    ELSE [ret |-> FALSE, c |-> m.c]

process_state_transitions(c, state, event) ==
    LET m == find_matching_transition(c, state, event) IN
    IF (m.result # 0) /\ m.guard_passed
    THEN execute_transition(m.c, state, m.result, event)
    ELSE [ret |-> FALSE, c |-> m.c]

(* ------------------------------------------------------------------ *)
(* Public API of state_machine.c                                       *)
(* ------------------------------------------------------------------ *)

\* SM_Init that runs the initial transition before it stores userData and the hook
SM_Init_lateFields(c, initialState, entryPathBuffer, bufferSize, userData, unhandledHook) ==
    IF (initialState # NULL) /\ (entryPathBuffer # NULL) /\ (bufferSize > 0)
    THEN LET c1 == perform_transition(
                       [c EXCEPT !.sm = [currentState       |-> NULL,
                                         initialState       |-> initialState,
                                         userData           |-> c.sm.userData,
                                         unhandledEventHook |-> c.sm.unhandledEventHook,
                                         entryPathBuffer    |-> entryPathBuffer,
                                         bufferSize         |-> bufferSize]],
                       initialState, NoEvent)
         IN [c1 EXCEPT !.sm.userData = userData, !.sm.unhandledEventHook = unhandledHook]
    ELSE c

\* SM_Init that accepts a buffer of size 0
SM_Init_noSizeCheck(c, initialState, entryPathBuffer, bufferSize, userData, unhandledHook) ==
    IF (initialState # NULL) /\ (entryPathBuffer # NULL)
    THEN perform_transition(
             [c EXCEPT !.sm = [currentState       |-> NULL,
                               initialState       |-> initialState,
                               userData           |-> userData,
                               unhandledEventHook |-> unhandledHook,
                               entryPathBuffer    |-> entryPathBuffer,
                               bufferSize         |-> bufferSize]],
             initialState, NoEvent)
    ELSE c

SM_Init(c, initialState, entryPathBuffer, bufferSize, userData, unhandledHook) ==
    IF (initialState # NULL) /\ (entryPathBuffer # NULL) /\ (bufferSize > 0)
    THEN perform_transition(
             [c EXCEPT !.sm = [currentState       |-> NULL,
                               initialState       |-> initialState,
                               userData           |-> userData,
                               unhandledEventHook |-> unhandledHook,
                               entryPathBuffer    |-> entryPathBuffer,
                               bufferSize         |-> bufferSize]],
             initialState, NoEvent)
    ELSE c

\* SM_Deinit that leaves the active state through its exit action first
SM_Deinit_withExit(c) ==
    LET c1 == IF (c.sm.currentState # NULL) /\ (tables[c.sm.currentState].exitAction # NULL)
              THEN Call(c, "exit", c.sm.currentState, 0,
                        tables[c.sm.currentState].exitAction, NoEvent)
              ELSE c
    IN [c1 EXCEPT !.sm = [currentState       |-> NULL,
                          initialState       |-> NULL,
                          userData           |-> NULL,
                          unhandledEventHook |-> NULL,
                          entryPathBuffer    |-> NULL,
                          bufferSize         |-> 0]]

\* SM_Deinit that forgets to clear currentState
SM_Deinit_keepCurrent(c) ==
    [c EXCEPT !.sm = [currentState       |-> c.sm.currentState,
                      initialState       |-> NULL,
                      userData           |-> NULL,
                      unhandledEventHook |-> NULL,
                      entryPathBuffer    |-> NULL,
                      bufferSize         |-> 0]]

SM_Deinit(c) ==
    [c EXCEPT !.sm = [currentState       |-> NULL,
                      initialState       |-> NULL,
                      userData           |-> NULL,
                      unhandledEventHook |-> NULL,
                      entryPathBuffer    |-> NULL,
                      bufferSize         |-> 0]]

\* SM_Reset as a plain field reset, without a transition
SM_Reset_fieldOnly(c) ==
    IF c.sm.initialState # NULL
    THEN [c EXCEPT !.sm.currentState = c.sm.initialState]
    ELSE c

SM_Reset(c) ==
    IF c.sm.initialState # NULL
    THEN perform_transition(c, c.sm.initialState, NoEvent)
    ELSE c

\* the loop of SM_Dispatch without continue_processing: the walk goes on to the
\* root after a state has handled the event
RECURSIVE dispatch_walk_noStop(_, _, _)
dispatch_walk_noStop(r, state_iter, event) ==
    IF state_iter # NULL
    THEN dispatch_walk_noStop(
             [ret |-> r.ret \/ process_state_transitions(r.c, state_iter, event).ret,
              c   |-> process_state_transitions(r.c, state_iter, event).c],
             ParentOf(state_iter), event)
    ELSE r

\* the while loop of SM_Dispatch: r.ret is is_handled (continue_processing is its
\* negation), and the loop bubbles up until a state handles the event
RECURSIVE dispatch_walk(_, _, _)
dispatch_walk(r, state_iter, event) ==
    IF (state_iter # NULL) /\ ~r.ret
    THEN dispatch_walk(process_state_transitions(r.c, state_iter, event),
                       ParentOf(state_iter), event)
    ELSE r

\* a hook that is called once: SM_Dispatch clears the pointer after the call
call_unhandled_hook_once(r, event) ==
    IF (~r.ret) /\ (r.c.sm.unhandledEventHook # NULL)
    THEN [r EXCEPT !.c = [Call(r.c, "hook", NULL, 0, r.c.sm.unhandledEventHook, event)
                            EXCEPT !.sm.unhandledEventHook = NULL]]
    ELSE r

\* the end of SM_Dispatch: the hook is called when no state handled the event
call_unhandled_hook(r, event) ==
    IF (~r.ret) /\ (r.c.sm.unhandledEventHook # NULL)
    THEN [r EXCEPT !.c = Call(r.c, "hook", NULL, 0, r.c.sm.unhandledEventHook, event)]
    ELSE r

SM_Dispatch(c, event) ==
    IF event # NoEvent
    THEN call_unhandled_hook(dispatch_walk([ret |-> FALSE,
                                            c |-> SetFrame(c, c.sm.currentState, NULL)],
                                           c.sm.currentState, event),
                             event)
    ELSE [ret |-> FALSE, c |-> c]

RECURSIVE is_in_state_walk(_, _)
is_in_state_walk(current_iter, state) ==
    IF current_iter # NULL
    THEN IF current_iter = state THEN TRUE ELSE is_in_state_walk(ParentOf(current_iter), state)
    ELSE FALSE

\* SM_IsInState that compares the current state only and skips the ancestors
SM_IsInState_selfOnly(c, state) ==
    IF state # NULL THEN c.sm.currentState = state ELSE FALSE

SM_IsInState(c, state) ==
    IF state # NULL THEN is_in_state_walk(c.sm.currentState, state) ELSE FALSE

SM_GetCurrentStateName(c) ==
    IF (c.sm.currentState # NULL) /\ (tables[c.sm.currentState].name # NULL)
    THEN tables[c.sm.currentState].name
    ELSE "Unknown"

(* ------------------------------------------------------------------ *)
(* Calls of SM_Dispatch made by callbacks                              *)
(* ------------------------------------------------------------------ *)

\* the nested SM_Dispatch starts: it runs one level deeper, on the same instance
\* and buffer
begin_nested(c, event) ==
    [c EXCEPT !.xfer = Append(@, NoFrame),
              !.trace = Append(@, Snap("dispatch", NULL, 0, NULL, event,
                                       [c EXCEPT !.xfer = Append(@, NoFrame)]))]

\* the nested SM_Dispatch has returned: its frame is dropped, and the frame of the
\* calling callback notes whether currentState is another than before
end_nested(before, inner) ==
    [inner EXCEPT
       !.trace = Append(@, Snap("return", before, 0, NULL, NoEvent, inner)),
       !.xfer = [i \in 1 .. (Len(inner.xfer) - 1) |->
                   IF (i = Len(inner.xfer) - 1) /\ (inner.sm.currentState # before)
                   THEN [inner.xfer[i] EXCEPT !.dist = TRUE]
                   ELSE inner.xfer[i]]]

\* the topmost entry of the call stack: a call of SM_Dispatch (its return value is
\* not used by the callbacks), or the return to the entry loop that was waiting
run_call(c, item) ==
    IF item.kind = "call"
    THEN SM_Dispatch(begin_nested(c, item.ev), item.ev).c
    ELSE execute_entry_loop(end_nested(item.before, c), item.idx, item.ev)

\* the calls made by callbacks, innermost first, until the API call is over
RECURSIVE run_calls(_)
run_calls(c) ==
    IF c.calls = <<>>
    THEN c
    ELSE run_calls(run_call([c EXCEPT !.calls = SubSeq(@, 1, Len(@) - 1)],
                            c.calls[Len(c.calls)]))

(* ------------------------------------------------------------------ *)
(* The caller: one action per API call                                 *)
(* ------------------------------------------------------------------ *)

\* the zeroed application data: AppData of test_state_machine.c and
\* sm_system_data_t of posix_app.c
AppZero == [tasks_completed |-> 0, post_step |-> 0, post_fail_count |-> 0,
            run_error_count |-> 0, upgrade_flag |-> 0]

ZeroSm == [currentState |-> NULL, initialState |-> NULL, userData |-> NULL,
           unhandledEventHook |-> NULL, entryPathBuffer |-> NULL, bufferSize |-> 0]

\* the context a call starts in: the current state and an empty callback trace
Ctx == [sm |-> sm, buf |-> buf, app |-> app, trace |-> <<>>, taken |-> <<>>,
        xfer |-> <<NoFrame>>, req |-> NoEvent, calls |-> <<>>]

\* the caller's set-up, as setup_and_run_sm does it: fresh application data and a
\* fresh path buffer, then SM_Init on an instance that is not in use
FreshCtx == [sm |-> sm, buf |-> [i \in 0 .. (MaxBuf - 1) |-> NULL],
             app |-> AppZero, trace |-> <<>>, taken |-> <<>>, xfer |-> <<NoFrame>>,
             req |-> NoEvent, calls |-> <<>>]

RetBool(b) == IF b THEN "true" ELSE "false"

\* record of the call just made: its arguments, the instance before it, its
\* return value and the callbacks it invoked
Record(op, c, ret, event, st, bufArg, sizeArg, udArg, hookArg) ==
    [op |-> op, pre |-> sm, preApp |-> IF op = "Init" THEN FreshCtx.app ELSE app, ev |-> event, st |-> st,
     bufArg |-> bufArg, sizeArg |-> sizeArg, udArg |-> udArg, hookArg |-> hookArg,
     ret |-> ret, trace |-> c.trace, taken |-> c.taken,
     streak |-> IF op # "Reset" THEN 0
                ELSE IF last.streak < MaxStreak THEN last.streak + 1 ELSE MaxStreak]

Commit(c) ==
    /\ sm' = c.sm
    /\ buf' = c.buf
    /\ app' = c.app

\* a call returns: what it left in the instance, the buffer and the application
\* data becomes the state, and the call is recorded
Returned(op, c, ret, event, st, bufArg, sizeArg, udArg, hookArg) ==
    /\ Commit(c)
    /\ last' = Record(op, c, ret, event, st, bufArg, sizeArg, udArg, hookArg)

Return(op, c, ret, event, st, bufArg, sizeArg, udArg, hookArg) ==
    Returned(op, run_calls(c), ret, event, st, bufArg, sizeArg, udArg, hookArg)

\* SM_Dispatch returns its bool
ReturnDispatch(r, event) ==
    Return("Dispatch", r.c, RetBool(r.ret), event, NULL, NULL, 0, NULL, NULL)

\* the callbacks of test_state_machine.c dereference userData, so a machine is
\* given the application data; the callbacks of post_state.c never read it, and a
\* machine over those tables may be given a null userData
UserDataChoices(initialState) ==
    IF initialState = "ROOT" THEN {NULL, "app_data"} ELSE {"app_data"}

\* the adapter instance of the program, zeroed (SM_RT_Instance rt_sm = {0}): an
\* SM_RTT_Instance (kind "rtt") or an SM_RT_Instance (kind "rt"), without its
\* base_sm, which is sm; mq and max_msgs are the content and the capacity of the
\* message queue event_queue points to, running tells whether the worker thread
\* is in its loop
ZeroStats == [total_events_processed |-> 0, total_events_unhandled |-> 0,
              total_transitions |-> 0, current_queue_depth |-> 0, max_queue_depth |-> 0]

ZeroInstance(kind) ==
    [kind |-> kind, stats |-> ZeroStats, config |-> [queue_size |-> 0],
     is_initialized |-> FALSE, is_started |-> FALSE, stop_requested |-> FALSE,
     worker_thread |-> NULL, event_queue |-> NULL, mutex |-> NULL,
     mq |-> <<>>, max_msgs |-> 0, running |-> FALSE]

\* the threads of a program that runs no worker thread and calls the library
\* from one thread, one call at a time
NoThreads == [owner |-> "none", worker |-> "none", caller |-> "idle"]

InitMachine ==
    /\ thr = NoThreads
    /\ sm = ZeroSm
    /\ buf = [i \in 0 .. (MaxBuf - 1) |-> NULL]
    /\ app = AppZero
    /\ last = [op |-> "none", pre |-> ZeroSm, preApp |-> AppZero,
               ev |-> NoEvent, st |-> NULL, bufArg |-> NULL, sizeArg |-> 0,
               udArg |-> NULL, hookArg |-> NULL, ret |-> "void", trace |-> <<>>,
               taken |-> <<>>, streak |-> 0]
    /\ pc = "setup"

\* a program that uses the core directly
Init ==
    /\ InitMachine
    /\ rtt = ZeroInstance("rtt")
    /\ tables = StateTable

\* pc is the position of the calling program (setup_and_run_sm): it sets the
\* instance up with SM_Init, uses it, and tears it down with SM_Deinit
CallInit ==
    /\ pc = "setup"
    /\ sm.initialState = NULL
    /\ \E initialState \in InitialStates \cup {NULL}, entryPathBuffer \in {NULL, "path_buffer"},
          bufferSize \in 0 .. MaxBuf, unhandledHook \in {NULL, "on_unhandled_event"} :
         \E userData \in UserDataChoices(initialState) :
           /\ Return("Init",
                     SM_Init(FreshCtx, initialState, entryPathBuffer, bufferSize, userData, unhandledHook),
                     "void", NoEvent, initialState, entryPathBuffer, bufferSize, userData, unhandledHook)
           /\ pc' = IF sm'.initialState # NULL THEN "run" ELSE "setup"
           /\ UNCHANGED <<rtt, tables, thr>>

CallDeinit ==
    /\ Return("Deinit", SM_Deinit(Ctx), "void", NoEvent, NULL, NULL, 0, NULL, NULL)
    /\ pc' = "done"
    /\ UNCHANGED <<rtt, tables, thr>>

CallReset ==
    /\ Return("Reset", SM_Reset(Ctx), "void", NoEvent, NULL, NULL, 0, NULL, NULL)
    /\ UNCHANGED <<pc, rtt, tables, thr>>

CallDispatch ==
    \E event \in Events \cup {NoEvent} :
        /\ ReturnDispatch(SM_Dispatch(Ctx, event), event)
        /\ UNCHANGED <<pc, rtt, tables, thr>>

CallIsInState ==
    \E state \in States \cup {NULL} :
        /\ UNCHANGED <<sm, buf, app, pc, rtt, tables, thr>>
        /\ last' = Record("IsInState", Ctx, RetBool(SM_IsInState(Ctx, state)), NoEvent, state,
                          NULL, 0, NULL, NULL)

CallGetCurrentStateName ==
    /\ UNCHANGED <<sm, buf, app, pc, rtt, tables, thr>>
    /\ last' = Record("GetCurrentStateName", Ctx, SM_GetCurrentStateName(Ctx), NoEvent, NULL,
                      NULL, 0, NULL, NULL)

Next ==
    \/ CallInit
    \/ CallDeinit
    \/ CallReset
    \/ CallDispatch
    \/ CallIsInState
    \/ CallGetCurrentStateName

Spec == Init /\ [][Next]_vars

(* ------------------------------------------------------------------ *)
(* The caller of posix_app.c: a machine whose entry actions dispatch   *)
(* ------------------------------------------------------------------ *)

\* main of posix_app.c: SM_Init(&sm, &sm_state_off, sm_entry_path_buffer,
\* SM_MAX_STATE_DEPTH, &sm_sys_data, sm_on_unhandled_event); a shorter buffer is
\* tried as well
CallInitApp ==
    /\ pc = "setup"
    /\ sm.initialState = NULL
    /\ \E bufferSize \in 1 .. MaxBuf :
         /\ Return("Init",
                   SM_Init(FreshCtx, "sm_state_off", "path_buffer", bufferSize, "app_data",
                           "on_unhandled_event"),
                   "void", NoEvent, "sm_state_off", "path_buffer", bufferSize, "app_data",
                   "on_unhandled_event")
         /\ pc' = "run"
         /\ UNCHANGED <<rtt, tables, thr>>

\* the thread of posix_app.c: SM_Dispatch of each event received
CallDispatchApp ==
    /\ pc = "run"
    /\ \E event \in AppEvents :
         /\ ReturnDispatch(SM_Dispatch(Ctx, event), event)
         /\ app'.post_step <= MaxCount
         /\ app'.run_error_count <= MaxCount
         /\ UNCHANGED <<pc, rtt, tables, thr>>

NextApp ==
    \/ CallInitApp
    \/ CallDispatchApp
    \/ CallReset
    \/ CallDeinit

SpecApp == Init /\ [][NextApp]_vars

(* ------------------------------------------------------------------ *)
(* The adapters: state_machine_rtt.c (SM_RTT_*, a worker thread fed by *)
(* a message queue) and state_machine_rt.c (SM_RT_*, which dispatches  *)
(* in the caller)                                                      *)
(* ------------------------------------------------------------------ *)

\* largest queue_size of a configuration
MaxQueue == 1

\* cap on the statistics counters, uint32_t in the source
MaxStat == 1

\* SM_RTT_Result
SM_RTT_RESULT_SUCCESS == "SUCCESS"
SM_RTT_RESULT_ERROR_NULL_PTR == "ERROR_NULL_PTR"
SM_RTT_RESULT_ERROR_INVALID == "ERROR_INVALID"
SM_RTT_RESULT_ERROR_NOT_INIT == "ERROR_NOT_INIT"
SM_RTT_RESULT_ERROR_ALREADY_INIT == "ERROR_ALREADY_INIT"
SM_RTT_RESULT_ERROR_NOT_STARTED == "ERROR_NOT_STARTED"
SM_RTT_RESULT_ERROR_ALREADY_STARTED == "ERROR_ALREADY_STARTED"
SM_RTT_RESULT_ERROR_QUEUE_FULL == "ERROR_QUEUE_FULL"
SM_RTT_RESULT_ERROR_UNKNOWN == "ERROR_UNKNOWN"

\* SM_RT_Result, as state_machine_rt.c uses it
SM_RT_RESULT_SUCCESS == "SUCCESS"
SM_RT_RESULT_ERROR_NULL_PTR == "ERROR_NULL_PTR"
SM_RT_RESULT_ERROR_INVALID == "ERROR_INVALID"
SM_RT_RESULT_ERROR_NOT_INIT == "ERROR_NOT_INIT"
SM_RT_RESULT_ERROR_ALREADY_INIT == "ERROR_ALREADY_INIT"
SM_RT_RESULT_ERROR_NOT_STARTED == "ERROR_NOT_STARTED"
SM_RT_RESULT_ERROR_ALREADY_STARTED == "ERROR_ALREADY_STARTED"

\* rt_err_t
RT_EOK == 0
RT_EFULL == 3
RT_EINVAL == 10

\* the id of the event SM_RTT_Stop sends to end the worker: the largest id there
\* is (0xFFFFFFFF in the source, the largest integer of the model here)
UINT32_MAX == 2147483647

\* the null configuration pointer
NoConfig == [queue_size |-> -1]

\* what an adapter function leaves: the instance a, the context c of its base
\* machine, its result, and what it stored through its output pointer
Res(a, c, ret, out) == [a |-> a, c |-> c, ret |-> ret, out |-> out]

\* SM_Dispatch with the calls its callbacks made, as its caller sees it return
settled(r) == [c |-> run_calls(r.c), ret |-> r.ret]

(* ---- rt_thread_mock.c ---- *)

\* rt_mq_send that reports success for a message a full queue has no room for
rt_mq_send_drop(a, buffer) ==
    IF a.event_queue = NULL
    THEN [a |-> a, err |-> RT_EINVAL]
    ELSE IF Len(a.mq) >= a.max_msgs
    THEN [a |-> a, err |-> RT_EOK]
    ELSE [a |-> [a EXCEPT !.mq = Append(@, buffer)], err |-> RT_EOK]

\* rt_mq_send that puts the message in front of the waiting ones
rt_mq_send_urgent(a, buffer) ==
    IF a.event_queue = NULL
    THEN [a |-> a, err |-> RT_EINVAL]
    ELSE IF Len(a.mq) >= a.max_msgs
    THEN [a |-> a, err |-> RT_EFULL]
    ELSE [a |-> [a EXCEPT !.mq = <<buffer>> \o @], err |-> RT_EOK]

\* rt_mq_send: RT_WAITING_NO, so a full queue refuses the message
rt_mq_send(a, buffer) ==
    IF a.event_queue = NULL
    THEN [a |-> a, err |-> RT_EINVAL]
    ELSE IF Len(a.mq) >= a.max_msgs
    THEN [a |-> a, err |-> RT_EFULL]
    ELSE [a |-> [a EXCEPT !.mq = Append(@, buffer)], err |-> RT_EOK]

\* the number of messages in the queue
rt_mq_get_count(a) == Len(a.mq)

(* ---- private helpers of state_machine_rtt.c ---- *)

\* the mutex is free whenever a call or the worker asks for it: calls and worker
\* iterations are taken one at a time
update_queue_stats(a) ==
    IF a.event_queue # NULL
    THEN [a EXCEPT !.stats.current_queue_depth = rt_mq_get_count(a),
                   !.stats.max_queue_depth =
                       IF rt_mq_get_count(a) > @ THEN rt_mq_get_count(a) ELSE @]
    ELSE a

cleanup_resources(a) ==
    [a EXCEPT !.event_queue = NULL,
              !.mq = IF a.event_queue # NULL THEN <<>> ELSE @,
              !.max_msgs = IF a.event_queue # NULL THEN 0 ELSE @,
              !.mutex = NULL]

\* dispatch_event_safe after SM_Dispatch returned: total_transitions and
\* total_events_processed
count_processed(a, prev_state, currentState) ==
    [a EXCEPT !.stats.total_transitions = IF prev_state # currentState THEN @ + 1 ELSE @,
              !.stats.total_events_processed = @ + 1]

\* if (!event_handled) rtt_sm->stats.total_events_unhandled++
count_unhandled(a, event_handled) ==
    [a EXCEPT !.stats.total_events_unhandled = IF ~event_handled THEN @ + 1 ELSE @]

\* the statistics after SM_Dispatch returned r for a machine that was in prev_state
count_dispatch(a, prev_state, r) ==
    Res(count_unhandled(count_processed(a, prev_state, r.c.sm.currentState), r.ret),
        r.c, SM_RTT_RESULT_SUCCESS, NULL)

dispatch_event_safe(a, c, rtt_sm, event) ==
    IF rtt_sm = NULL
    THEN Res(a, c, SM_RTT_RESULT_ERROR_NULL_PTR, NULL)
    ELSE IF event = NoEvent
    THEN Res(a, c, SM_RTT_RESULT_ERROR_NULL_PTR, NULL)
    ELSE count_dispatch(a, c.sm.currentState, settled(SM_Dispatch(c, event)))

\* what follows the dispatch in an iteration of the worker
worker_counted(r) == Res(update_queue_stats(r.a), r.c, r.ret, r.out)

\* one iteration of the loop of worker_entry, with event_buffer the message
\* rt_mq_recv took from the queue; the iteration that finds the stop signal is
\* the last
worker_received(a, c, event_buffer) ==
    IF a.stop_requested \/ (event_buffer.id = UINT32_MAX)
    THEN Res([a EXCEPT !.running = FALSE], c, "void", NULL)
    ELSE worker_counted(dispatch_event_safe(a, c, "rtt_sm", event_buffer))

worker_entry(a, c) ==
    worker_received([a EXCEPT !.mq = Tail(@)], c, Head(a.mq))

(* ---- public API of state_machine_rtt.c ---- *)

\* SM_RTT_Init that initializes an instance again that is initialized already
SM_RTT_Init_again(a, c, rtt_sm, config, initial_state, entry_path_buffer, buffer_size, user_data, unhandled_hook) ==
    IF (rtt_sm = NULL) \/ (config = NoConfig) \/ (initial_state = NULL) \/ (entry_path_buffer = NULL)
    THEN Res(a, c, SM_RTT_RESULT_ERROR_NULL_PTR, NULL)
    ELSE IF (buffer_size = 0) \/ (config.queue_size = 0)
    THEN Res(a, c, SM_RTT_RESULT_ERROR_INVALID, NULL)
    ELSE Res([a EXCEPT !.config = config, !.stats = ZeroStats,
                       !.is_initialized = TRUE, !.is_started = FALSE,
                       !.stop_requested = FALSE, !.worker_thread = NULL,
                       !.event_queue = NULL, !.mutex = NULL],
             run_calls(SM_Init(c, initial_state, entry_path_buffer, buffer_size,
                               user_data, unhandled_hook)),
             IF a.is_initialized THEN SM_RTT_RESULT_ERROR_ALREADY_INIT
             ELSE SM_RTT_RESULT_SUCCESS, NULL)

SM_RTT_Init(a, c, rtt_sm, config, initial_state, entry_path_buffer, buffer_size, user_data, unhandled_hook) ==
    IF rtt_sm = NULL
    THEN Res(a, c, SM_RTT_RESULT_ERROR_NULL_PTR, NULL)
    ELSE IF config = NoConfig
    THEN Res(a, c, SM_RTT_RESULT_ERROR_NULL_PTR, NULL)
    ELSE IF initial_state = NULL
    THEN Res(a, c, SM_RTT_RESULT_ERROR_NULL_PTR, NULL)
    ELSE IF entry_path_buffer = NULL
    THEN Res(a, c, SM_RTT_RESULT_ERROR_NULL_PTR, NULL)
    ELSE IF buffer_size = 0
    THEN Res(a, c, SM_RTT_RESULT_ERROR_INVALID, NULL)
    ELSE IF config.queue_size = 0
    THEN Res(a, c, SM_RTT_RESULT_ERROR_INVALID, NULL)
    ELSE IF a.is_initialized
    THEN Res(a, c, SM_RTT_RESULT_ERROR_ALREADY_INIT, NULL)
    ELSE Res([a EXCEPT !.config = config, !.stats = ZeroStats,
                       !.is_initialized = TRUE, !.is_started = FALSE,
                       !.stop_requested = FALSE, !.worker_thread = NULL,
                       !.event_queue = NULL, !.mutex = NULL],
             run_calls(SM_Init(c, initial_state, entry_path_buffer, buffer_size,
                               user_data, unhandled_hook)),
             SM_RTT_RESULT_SUCCESS, NULL)

\* the validated part of SM_RTT_Stop: the stop request, the stop event, the end
\* of the worker thread and of the queue and the mutex
stop_worker(a) ==
    [cleanup_resources([rt_mq_send([a EXCEPT !.stop_requested = TRUE],
                                   [id |-> UINT32_MAX, context |-> 0]).a
                          EXCEPT !.worker_thread = NULL, !.running = FALSE])
       EXCEPT !.is_started = FALSE]

SM_RTT_Stop(a, c, rtt_sm) ==
    IF rtt_sm = NULL
    THEN Res(a, c, SM_RTT_RESULT_ERROR_NULL_PTR, NULL)
    ELSE IF ~a.is_initialized
    THEN Res(a, c, SM_RTT_RESULT_ERROR_NOT_INIT, NULL)
    ELSE IF ~a.is_started
    THEN Res(a, c, SM_RTT_RESULT_ERROR_NOT_STARTED, NULL)
    ELSE Res(stop_worker(a), c, SM_RTT_RESULT_SUCCESS, NULL)

\* the validated part of SM_RTT_Deinit
deinit_instance(a, c) ==
    Res([cleanup_resources(a) EXCEPT !.is_initialized = FALSE], SM_Deinit(c),
        SM_RTT_RESULT_SUCCESS, NULL)

\* SM_RTT_Deinit that does not stop a started instance first
SM_RTT_Deinit_noStop(a, c, rtt_sm) ==
    IF rtt_sm = NULL
    THEN Res(a, c, SM_RTT_RESULT_ERROR_NULL_PTR, NULL)
    ELSE IF ~a.is_initialized
    THEN Res(a, c, SM_RTT_RESULT_ERROR_NOT_INIT, NULL)
    ELSE deinit_instance(a, c)

SM_RTT_Deinit(a, c, rtt_sm) ==
    IF rtt_sm = NULL
    THEN Res(a, c, SM_RTT_RESULT_ERROR_NULL_PTR, NULL)
    ELSE IF ~a.is_initialized
    THEN Res(a, c, SM_RTT_RESULT_ERROR_NOT_INIT, NULL)
    ELSE deinit_instance(IF a.is_started THEN SM_RTT_Stop(a, c, rtt_sm).a ELSE a, c)

\* the resources SM_RTT_Start creates; failed names the RT-Thread call that
\* fails, "none" if all succeed
NoResources(a) ==
    [a EXCEPT !.worker_thread = NULL, !.event_queue = NULL, !.mutex = NULL]

create_resources(a, c, failed) ==
    IF failed = "rt_mutex_create"
    THEN Res([a EXCEPT !.mutex = NULL], c, SM_RTT_RESULT_ERROR_UNKNOWN, NULL)
    ELSE IF failed = "rt_mq_create"
    THEN Res([a EXCEPT !.event_queue = NULL, !.mutex = NULL], c,
             SM_RTT_RESULT_ERROR_UNKNOWN, NULL)
    ELSE IF failed = "rt_thread_create"
    THEN Res(NoResources(a), c, SM_RTT_RESULT_ERROR_UNKNOWN, NULL)
    ELSE IF failed = "rt_thread_startup"
    THEN Res([NoResources(a) EXCEPT !.stop_requested = FALSE], c,
             SM_RTT_RESULT_ERROR_UNKNOWN, NULL)
    ELSE Res([a EXCEPT !.mutex = "mutex", !.event_queue = "mq", !.mq = <<>>,
                       !.max_msgs = a.config.queue_size, !.worker_thread = "thread",
                       !.stop_requested = FALSE, !.running = TRUE, !.is_started = TRUE],
             c, SM_RTT_RESULT_SUCCESS, NULL)

SM_RTT_Start(a, c, rtt_sm, failed) ==
    IF rtt_sm = NULL
    THEN Res(a, c, SM_RTT_RESULT_ERROR_NULL_PTR, NULL)
    ELSE IF ~a.is_initialized
    THEN Res(a, c, SM_RTT_RESULT_ERROR_NOT_INIT, NULL)
    ELSE IF a.is_started
    THEN Res(a, c, SM_RTT_RESULT_ERROR_ALREADY_STARTED, NULL)
    ELSE create_resources(a, c, failed)

SM_RTT_DispatchSync(a, c, rtt_sm, event) ==
    IF rtt_sm = NULL
    THEN Res(a, c, SM_RTT_RESULT_ERROR_NULL_PTR, NULL)
    ELSE IF event = NoEvent
    THEN Res(a, c, SM_RTT_RESULT_ERROR_NULL_PTR, NULL)
    ELSE IF ~a.is_initialized
    THEN Res(a, c, SM_RTT_RESULT_ERROR_NOT_INIT, NULL)
    ELSE dispatch_event_safe(a, c, rtt_sm, event)

\* the result of SM_RTT_PostEvent for what rt_mq_send returned
posted(s, c) ==
    IF s.err = RT_EOK
    THEN Res(update_queue_stats(s.a), c, SM_RTT_RESULT_SUCCESS, NULL)
    ELSE IF s.err = RT_EFULL
    THEN Res(s.a, c, SM_RTT_RESULT_ERROR_QUEUE_FULL, NULL)
    ELSE Res(s.a, c, SM_RTT_RESULT_ERROR_UNKNOWN, NULL)

\* SM_RTT_PostEvent that enqueues for an instance that is not started
SM_RTT_PostEvent_unstarted(a, c, rtt_sm, event) ==
    IF rtt_sm = NULL
    THEN Res(a, c, SM_RTT_RESULT_ERROR_NULL_PTR, NULL)
    ELSE IF event = NoEvent
    THEN Res(a, c, SM_RTT_RESULT_ERROR_NULL_PTR, NULL)
    ELSE IF ~a.is_initialized
    THEN Res(a, c, SM_RTT_RESULT_ERROR_NOT_INIT, NULL)
    ELSE IF ~a.is_started
    THEN Res([a EXCEPT !.mq = Append(@, event)], c, SM_RTT_RESULT_ERROR_NOT_STARTED, NULL)
    ELSE posted(rt_mq_send(a, event), c)

SM_RTT_PostEvent(a, c, rtt_sm, event) ==
    IF rtt_sm = NULL
    THEN Res(a, c, SM_RTT_RESULT_ERROR_NULL_PTR, NULL)
    ELSE IF event = NoEvent
    THEN Res(a, c, SM_RTT_RESULT_ERROR_NULL_PTR, NULL)
    ELSE IF ~a.is_initialized
    THEN Res(a, c, SM_RTT_RESULT_ERROR_NOT_INIT, NULL)
    ELSE IF ~a.is_started
    THEN Res(a, c, SM_RTT_RESULT_ERROR_NOT_STARTED, NULL)
    ELSE posted(rt_mq_send(a, event), c)

SM_RTT_PostEventId(a, c, rtt_sm, event_id, context) ==
    IF rtt_sm = NULL
    THEN Res(a, c, SM_RTT_RESULT_ERROR_NULL_PTR, NULL)
    ELSE IF ~a.is_initialized
    THEN Res(a, c, SM_RTT_RESULT_ERROR_NOT_INIT, NULL)
    ELSE IF ~a.is_started
    THEN Res(a, c, SM_RTT_RESULT_ERROR_NOT_STARTED, NULL)
    ELSE SM_RTT_PostEvent(a, c, rtt_sm, [id |-> event_id, context |-> context])

SM_RTT_Reset(a, c, rtt_sm) ==
    IF rtt_sm = NULL
    THEN Res(a, c, SM_RTT_RESULT_ERROR_NULL_PTR, NULL)
    ELSE IF ~a.is_initialized
    THEN Res(a, c, SM_RTT_RESULT_ERROR_NOT_INIT, NULL)
    ELSE Res([a EXCEPT !.stats.total_transitions = @ + 1], run_calls(SM_Reset(c)),
             SM_RTT_RESULT_SUCCESS, NULL)

\* is_in_state, state_name and stats are the output pointers; out is what the
\* function stored through them, NULL if it stored nothing
SM_RTT_IsInState(a, c, rtt_sm, state, is_in_state) ==
    IF rtt_sm = NULL
    THEN Res(a, c, SM_RTT_RESULT_ERROR_NULL_PTR, IF is_in_state # NULL THEN FALSE ELSE NULL)
    ELSE IF state = NULL
    THEN Res(a, c, SM_RTT_RESULT_ERROR_NULL_PTR, IF is_in_state # NULL THEN FALSE ELSE NULL)
    ELSE IF is_in_state = NULL
    THEN Res(a, c, SM_RTT_RESULT_ERROR_NULL_PTR, NULL)
    ELSE IF ~a.is_initialized
    THEN Res(a, c, SM_RTT_RESULT_ERROR_NOT_INIT, FALSE)
    ELSE Res(a, c, SM_RTT_RESULT_SUCCESS, SM_IsInState(c, state))

SM_RTT_GetCurrentStateName(a, c, rtt_sm, state_name) ==
    IF rtt_sm = NULL
    THEN Res(a, c, SM_RTT_RESULT_ERROR_NULL_PTR, IF state_name # NULL THEN "Unknown" ELSE NULL)
    ELSE IF state_name = NULL
    THEN Res(a, c, SM_RTT_RESULT_ERROR_NULL_PTR, NULL)
    ELSE IF ~a.is_initialized
    THEN Res(a, c, SM_RTT_RESULT_ERROR_NOT_INIT, "Unknown")
    ELSE Res(a, c, SM_RTT_RESULT_SUCCESS, SM_GetCurrentStateName(c))

SM_RTT_GetStatistics(a, c, rtt_sm, stats) ==
    IF rtt_sm = NULL
    THEN Res(a, c, SM_RTT_RESULT_ERROR_NULL_PTR, IF stats # NULL THEN ZeroStats ELSE NULL)
    ELSE IF stats = NULL
    THEN Res(a, c, SM_RTT_RESULT_ERROR_NULL_PTR, NULL)
    ELSE IF ~a.is_initialized
    THEN Res(a, c, SM_RTT_RESULT_ERROR_NOT_INIT, ZeroStats)
    ELSE Res(a, c, SM_RTT_RESULT_SUCCESS, a.stats)

SM_RTT_ResetStatistics(a, c, rtt_sm) ==
    IF rtt_sm = NULL
    THEN Res(a, c, SM_RTT_RESULT_ERROR_NULL_PTR, NULL)
    ELSE IF ~a.is_initialized
    THEN Res(a, c, SM_RTT_RESULT_ERROR_NOT_INIT, NULL)
    ELSE Res([a EXCEPT !.stats = ZeroStats], c, SM_RTT_RESULT_SUCCESS, NULL)

(* ---- state_machine_rt.c; its base functions sm_rt_init_base, ---- *)
(* ---- sm_rt_reset_base, sm_rt_dispatch_base, sm_rt_is_in_state_base ---- *)
(* ---- and sm_rt_get_current_state_name_base are copies of SM_Init, ---- *)
(* ---- SM_Reset, SM_Dispatch, SM_IsInState and SM_GetCurrentStateName ---- *)

\* the statistics after sm_rt_dispatch_base returned r
rt_count_dispatch(a, r) ==
    Res([a EXCEPT !.stats.total_events_processed = @ + 1,
                  !.stats.total_events_unhandled = IF ~r.ret THEN @ + 1 ELSE @],
        r.c, SM_RT_RESULT_SUCCESS, NULL)

\* dispatch_event of state_machine_rt.c
rt_dispatch_event(a, c, rt_sm, event) ==
    IF rt_sm = NULL
    THEN Res(a, c, SM_RT_RESULT_ERROR_NULL_PTR, NULL)
    ELSE IF event = NoEvent
    THEN Res(a, c, SM_RT_RESULT_ERROR_NULL_PTR, NULL)
    ELSE rt_count_dispatch(a, settled(SM_Dispatch(c, event)))

SM_RT_Init(a, c, rt_sm, initial_state, entry_path_buffer, buffer_size, user_data, unhandled_hook) ==
    IF rt_sm = NULL
    THEN Res(a, c, SM_RT_RESULT_ERROR_NULL_PTR, NULL)
    ELSE IF initial_state = NULL
    THEN Res(a, c, SM_RT_RESULT_ERROR_NULL_PTR, NULL)
    ELSE IF entry_path_buffer = NULL
    THEN Res(a, c, SM_RT_RESULT_ERROR_NULL_PTR, NULL)
    ELSE IF buffer_size = 0
    THEN Res(a, c, SM_RT_RESULT_ERROR_INVALID, NULL)
    ELSE IF a.is_initialized
    THEN Res(a, c, SM_RT_RESULT_ERROR_ALREADY_INIT, NULL)
    ELSE Res([a EXCEPT !.stats = ZeroStats, !.is_initialized = TRUE, !.is_started = FALSE,
                       !.worker_thread = NULL, !.event_queue = NULL, !.mutex = NULL],
             run_calls(SM_Init(c, initial_state, entry_path_buffer, buffer_size,
                               user_data, unhandled_hook)),
             SM_RT_RESULT_SUCCESS, NULL)

SM_RT_Start(a, c, rt_sm) ==
    IF rt_sm = NULL
    THEN Res(a, c, SM_RT_RESULT_ERROR_NULL_PTR, NULL)
    ELSE IF ~a.is_initialized
    THEN Res(a, c, SM_RT_RESULT_ERROR_NOT_INIT, NULL)
    ELSE IF a.is_started
    THEN Res(a, c, SM_RT_RESULT_ERROR_ALREADY_STARTED, NULL)
    ELSE Res([a EXCEPT !.is_started = TRUE], c, SM_RT_RESULT_SUCCESS, NULL)

SM_RT_Stop(a, c, rt_sm) ==
    IF rt_sm = NULL
    THEN Res(a, c, SM_RT_RESULT_ERROR_NULL_PTR, NULL)
    ELSE IF ~a.is_initialized
    THEN Res(a, c, SM_RT_RESULT_ERROR_NOT_INIT, NULL)
    ELSE IF ~a.is_started
    THEN Res(a, c, SM_RT_RESULT_ERROR_NOT_STARTED, NULL)
    ELSE Res([a EXCEPT !.is_started = FALSE, !.worker_thread = NULL,
                       !.event_queue = NULL, !.mutex = NULL],
             c, SM_RT_RESULT_SUCCESS, NULL)

\* SM_RT_PostEvent that leaves the event for a worker thread and reports success
SM_RT_PostEvent_deferred(a, c, rt_sm, event) ==
    IF rt_sm = NULL
    THEN Res(a, c, SM_RT_RESULT_ERROR_NULL_PTR, NULL)
    ELSE IF event = NoEvent
    THEN Res(a, c, SM_RT_RESULT_ERROR_NULL_PTR, NULL)
    ELSE IF ~a.is_initialized
    THEN Res(a, c, SM_RT_RESULT_ERROR_NOT_INIT, NULL)
    ELSE IF ~a.is_started
    THEN Res(a, c, SM_RT_RESULT_ERROR_NOT_STARTED, NULL)
    ELSE Res(a, c, SM_RT_RESULT_SUCCESS, NULL)

SM_RT_PostEvent(a, c, rt_sm, event) ==
    IF rt_sm = NULL
    THEN Res(a, c, SM_RT_RESULT_ERROR_NULL_PTR, NULL)
    ELSE IF event = NoEvent
    THEN Res(a, c, SM_RT_RESULT_ERROR_NULL_PTR, NULL)
    ELSE IF ~a.is_initialized
    THEN Res(a, c, SM_RT_RESULT_ERROR_NOT_INIT, NULL)
    ELSE IF ~a.is_started
    THEN Res(a, c, SM_RT_RESULT_ERROR_NOT_STARTED, NULL)
    ELSE rt_dispatch_event(a, c, rt_sm, event)

SM_RT_PostEventId(a, c, rt_sm, event_id, context) ==
    IF rt_sm = NULL
    THEN Res(a, c, SM_RT_RESULT_ERROR_NULL_PTR, NULL)
    ELSE IF ~a.is_initialized
    THEN Res(a, c, SM_RT_RESULT_ERROR_NOT_INIT, NULL)
    ELSE IF ~a.is_started
    THEN Res(a, c, SM_RT_RESULT_ERROR_NOT_STARTED, NULL)
    ELSE SM_RT_PostEvent(a, c, rt_sm, [id |-> event_id, context |-> context])

SM_RT_Reset(a, c, rt_sm) ==
    IF rt_sm = NULL
    THEN Res(a, c, SM_RT_RESULT_ERROR_NULL_PTR, NULL)
    ELSE IF ~a.is_initialized
    THEN Res(a, c, SM_RT_RESULT_ERROR_NOT_INIT, NULL)
    ELSE Res([a EXCEPT !.stats.total_transitions = @ + 1], run_calls(SM_Reset(c)),
             SM_RT_RESULT_SUCCESS, NULL)

SM_RT_IsInState(a, c, rt_sm, state, is_in_state) ==
    IF rt_sm = NULL
    THEN Res(a, c, SM_RT_RESULT_ERROR_NULL_PTR, IF is_in_state # NULL THEN FALSE ELSE NULL)
    ELSE IF state = NULL
    THEN Res(a, c, SM_RT_RESULT_ERROR_NULL_PTR, IF is_in_state # NULL THEN FALSE ELSE NULL)
    ELSE IF is_in_state = NULL
    THEN Res(a, c, SM_RT_RESULT_ERROR_NULL_PTR, NULL)
    ELSE IF ~a.is_initialized
    THEN Res(a, c, SM_RT_RESULT_ERROR_NOT_INIT, FALSE)
    ELSE Res(a, c, SM_RT_RESULT_SUCCESS, SM_IsInState(c, state))

SM_RT_GetCurrentStateName(a, c, rt_sm, state_name) ==
    IF rt_sm = NULL
    THEN Res(a, c, SM_RT_RESULT_ERROR_NULL_PTR, IF state_name # NULL THEN "Unknown" ELSE NULL)
    ELSE IF state_name = NULL
    THEN Res(a, c, SM_RT_RESULT_ERROR_NULL_PTR, NULL)
    ELSE IF ~a.is_initialized
    THEN Res(a, c, SM_RT_RESULT_ERROR_NOT_INIT, "Unknown")
    ELSE Res(a, c, SM_RT_RESULT_SUCCESS, SM_GetCurrentStateName(c))

SM_RT_GetStatistics(a, c, rt_sm, stats) ==
    IF rt_sm = NULL
    THEN Res(a, c, SM_RT_RESULT_ERROR_NULL_PTR, IF stats # NULL THEN ZeroStats ELSE NULL)
    ELSE IF stats = NULL
    THEN Res(a, c, SM_RT_RESULT_ERROR_NULL_PTR, NULL)
    ELSE IF ~a.is_initialized
    THEN Res(a, c, SM_RT_RESULT_ERROR_NOT_INIT, ZeroStats)
    ELSE Res(a, c, SM_RT_RESULT_SUCCESS, a.stats)

SM_RT_ResetStatistics(a, c, rt_sm) ==
    IF rt_sm = NULL
    THEN Res(a, c, SM_RT_RESULT_ERROR_NULL_PTR, NULL)
    ELSE IF ~a.is_initialized
    THEN Res(a, c, SM_RT_RESULT_ERROR_NOT_INIT, NULL)
    ELSE Res([a EXCEPT !.stats = ZeroStats], c, SM_RT_RESULT_SUCCESS, NULL)

(* ------------------------------------------------------------------ *)
(* The program that uses an adapter: one action per call, and the      *)
(* worker thread                                                       *)
(* ------------------------------------------------------------------ *)

\* the events posted and dispatched through an adapter: one the tables handle,
\* and one they do not handle, which has the id of the stop signal
AdapterEventIds == {HEv.down, UINT32_MAX}

AdapterEvents == {[id |-> i, context |-> 0] : i \in AdapterEventIds}

\* the arguments of a call: the instance with every choice of the other
\* arguments, and a null instance pointer with the given ones
Args(others, given) ==
    {[x \in DOMAIN o \cup {"rtt_sm"} |-> IF x = "rtt_sm" THEN "instance" ELSE o[x]] : o \in others}
      \cup {[x \in DOMAIN given \cup {"rtt_sm"} |-> IF x = "rtt_sm" THEN NULL ELSE given[x]]}

\* the machine is set up in the outermost state of the three-level tables, with
\* the whole buffer, or with one defect in the arguments, or with two of them
InitArgs ==
    Args({[initial_state |-> "Top", entry_path_buffer |-> "path_buffer", buffer_size |-> MaxBuf],
          [initial_state |-> NULL, entry_path_buffer |-> "path_buffer", buffer_size |-> MaxBuf],
          [initial_state |-> "Top", entry_path_buffer |-> NULL, buffer_size |-> MaxBuf],
          [initial_state |-> "Top", entry_path_buffer |-> "path_buffer", buffer_size |-> 0],
          [initial_state |-> NULL, entry_path_buffer |-> "path_buffer", buffer_size |-> 0]},
         [initial_state |-> "Top", entry_path_buffer |-> "path_buffer", buffer_size |-> MaxBuf])

\* SM_RTT_Init is given a configuration as well: a valid one with each of the
\* arguments above, or a defective one with arguments that are valid but for the
\* buffer_size
RttInitArgs ==
    {[x \in DOMAIN o \cup {"config"} |-> IF x = "config" THEN [queue_size |-> MaxQueue] ELSE o[x]] :
        o \in InitArgs}
      \cup [rtt_sm : {"instance"}, config : {NoConfig, [queue_size |-> 0]},
            initial_state : {"Top"}, entry_path_buffer : {"path_buffer"},
            buffer_size : {0, MaxBuf}]

NoArgs == Args({[none |-> 0]}, [none |-> 0])

EventArgs == Args([event : AdapterEvents \cup {NoEvent}], [event |-> [id |-> HEv.down, context |-> 0]])

EventIdArgs == Args([event : AdapterEvents], [event |-> [id |-> HEv.down, context |-> 0]])

\* the RT-Thread call that fails in SM_RTT_Start, "none" if all succeed; the
\* calls are made for an instance that is ready to start only
StartArgs ==
    Args([failed : IF rtt.is_initialized /\ ~rtt.is_started
                   THEN {"none", "rt_mutex_create", "rt_mq_create", "rt_thread_create",
                         "rt_thread_startup"}
                   ELSE {"none"}],
         [failed |-> "none"])

IsInStateArgs ==
    Args({[state |-> "Top", is_in_state |-> "is_in_state"],
          [state |-> NULL, is_in_state |-> "is_in_state"],
          [state |-> "Top", is_in_state |-> NULL]},
         [state |-> "Top", is_in_state |-> "is_in_state"])

OutArgs == Args([out : {NULL, "out"}], [out |-> "out"])

\* an adapter call returns: the instance, its base machine and what the callbacks
\* touched become the state, and the call is recorded with the state before it
AdapterReturned(op, r, args) ==
    /\ r.a.stats.total_events_processed <= MaxStat
    /\ r.a.stats.total_transitions <= MaxStat
    /\ Commit(r.c)
    /\ rtt' = r.a
    /\ last' = [op |-> op, pre |-> sm, preApp |-> app, preBuf |-> buf, preRtt |-> rtt,
                args |-> args, ret |-> r.ret, out |-> r.out, trace |-> r.c.trace,
                taken |-> r.c.taken, streak |-> 0]
    /\ UNCHANGED <<pc, tables, thr>>

CallRttInit ==
    /\ rtt.kind = "rtt"
    /\ \E args \in RttInitArgs :
         AdapterReturned("SM_RTT_Init",
                         SM_RTT_Init(rtt, Ctx, args.rtt_sm, args.config, args.initial_state,
                                     args.entry_path_buffer, args.buffer_size, "app_data",
                                     "on_unhandled_event"),
                         args)

CallRttDeinit ==
    /\ rtt.kind = "rtt"
    /\ \E args \in NoArgs :
         AdapterReturned("SM_RTT_Deinit", SM_RTT_Deinit(rtt, Ctx, args.rtt_sm), args)

CallRttStart ==
    /\ rtt.kind = "rtt"
    /\ \E args \in StartArgs :
         AdapterReturned("SM_RTT_Start", SM_RTT_Start(rtt, Ctx, args.rtt_sm, args.failed), args)

CallRttStop ==
    /\ rtt.kind = "rtt"
    /\ \E args \in NoArgs :
         AdapterReturned("SM_RTT_Stop", SM_RTT_Stop(rtt, Ctx, args.rtt_sm), args)

CallRttDispatchSync ==
    /\ rtt.kind = "rtt"
    /\ \E args \in EventArgs :
         AdapterReturned("SM_RTT_DispatchSync",
                         SM_RTT_DispatchSync(rtt, Ctx, args.rtt_sm, args.event), args)

CallRttPostEvent ==
    /\ rtt.kind = "rtt"
    /\ \E args \in EventArgs :
         AdapterReturned("SM_RTT_PostEvent",
                         SM_RTT_PostEvent(rtt, Ctx, args.rtt_sm, args.event), args)

CallRttPostEventId ==
    /\ rtt.kind = "rtt"
    /\ \E args \in EventIdArgs :
         AdapterReturned("SM_RTT_PostEventId",
                         SM_RTT_PostEventId(rtt, Ctx, args.rtt_sm, args.event.id,
                                            args.event.context), args)

CallRttReset ==
    /\ rtt.kind = "rtt"
    /\ \E args \in NoArgs :
         AdapterReturned("SM_RTT_Reset", SM_RTT_Reset(rtt, Ctx, args.rtt_sm), args)

CallRttIsInState ==
    /\ rtt.kind = "rtt"
    /\ \E args \in IsInStateArgs :
         AdapterReturned("SM_RTT_IsInState",
                         SM_RTT_IsInState(rtt, Ctx, args.rtt_sm, args.state, args.is_in_state),
                         args)

CallRttGetCurrentStateName ==
    /\ rtt.kind = "rtt"
    /\ \E args \in OutArgs :
         AdapterReturned("SM_RTT_GetCurrentStateName",
                         SM_RTT_GetCurrentStateName(rtt, Ctx, args.rtt_sm, args.out), args)

CallRttGetStatistics ==
    /\ rtt.kind = "rtt"
    /\ \E args \in OutArgs :
         AdapterReturned("SM_RTT_GetStatistics",
                         SM_RTT_GetStatistics(rtt, Ctx, args.rtt_sm, args.out), args)

CallRttResetStatistics ==
    /\ rtt.kind = "rtt"
    /\ \E args \in NoArgs :
         AdapterReturned("SM_RTT_ResetStatistics",
                         SM_RTT_ResetStatistics(rtt, Ctx, args.rtt_sm), args)

\* the worker thread takes the next message off the queue; it waits while the
\* queue is empty
WorkerStep ==
    /\ rtt.kind = "rtt"
    /\ rtt.running
    /\ rtt.mq # <<>>
    /\ AdapterReturned("worker_entry", worker_entry(rtt, Ctx), [event |-> Head(rtt.mq)])

CallRtInit ==
    /\ rtt.kind = "rt"
    /\ \E args \in InitArgs :
         AdapterReturned("SM_RT_Init",
                         SM_RT_Init(rtt, Ctx, args.rtt_sm, args.initial_state,
                                    args.entry_path_buffer, args.buffer_size, "app_data",
                                    "on_unhandled_event"),
                         args)

CallRtStart ==
    /\ rtt.kind = "rt"
    /\ \E args \in NoArgs :
         AdapterReturned("SM_RT_Start", SM_RT_Start(rtt, Ctx, args.rtt_sm), args)

CallRtStop ==
    /\ rtt.kind = "rt"
    /\ \E args \in NoArgs :
         AdapterReturned("SM_RT_Stop", SM_RT_Stop(rtt, Ctx, args.rtt_sm), args)

CallRtPostEvent ==
    /\ rtt.kind = "rt"
    /\ \E args \in EventArgs :
         AdapterReturned("SM_RT_PostEvent", SM_RT_PostEvent(rtt, Ctx, args.rtt_sm, args.event),
                         args)

CallRtPostEventId ==
    /\ rtt.kind = "rt"
    /\ \E args \in EventIdArgs :
         AdapterReturned("SM_RT_PostEventId",
                         SM_RT_PostEventId(rtt, Ctx, args.rtt_sm, args.event.id,
                                           args.event.context), args)

CallRtReset ==
    /\ rtt.kind = "rt"
    /\ \E args \in NoArgs :
         AdapterReturned("SM_RT_Reset", SM_RT_Reset(rtt, Ctx, args.rtt_sm), args)

CallRtIsInState ==
    /\ rtt.kind = "rt"
    /\ \E args \in IsInStateArgs :
         AdapterReturned("SM_RT_IsInState",
                         SM_RT_IsInState(rtt, Ctx, args.rtt_sm, args.state, args.is_in_state),
                         args)

CallRtGetCurrentStateName ==
    /\ rtt.kind = "rt"
    /\ \E args \in OutArgs :
         AdapterReturned("SM_RT_GetCurrentStateName",
                         SM_RT_GetCurrentStateName(rtt, Ctx, args.rtt_sm, args.out), args)

CallRtGetStatistics ==
    /\ rtt.kind = "rt"
    /\ \E args \in OutArgs :
         AdapterReturned("SM_RT_GetStatistics",
                         SM_RT_GetStatistics(rtt, Ctx, args.rtt_sm, args.out), args)

CallRtResetStatistics ==
    /\ rtt.kind = "rt"
    /\ \E args \in NoArgs :
         AdapterReturned("SM_RT_ResetStatistics", SM_RT_ResetStatistics(rtt, Ctx, args.rtt_sm),
                         args)

\* a program that uses an adapter declares an SM_RTT_Instance or an SM_RT_Instance;
\* the tables it is linked with are those of the hierarchy its machine runs
InitAdapter ==
    /\ InitMachine
    /\ rtt \in {ZeroInstance("rtt"), ZeroInstance("rt")}
    /\ tables = DeepTables

NextAdapter ==
    \/ CallRttInit
    \/ CallRttDeinit
    \/ CallRttStart
    \/ CallRttStop
    \/ CallRttDispatchSync
    \/ CallRttPostEvent
    \/ CallRttPostEventId
    \/ CallRttReset
    \/ CallRttIsInState
    \/ CallRttGetCurrentStateName
    \/ CallRttGetStatistics
    \/ CallRttResetStatistics
    \/ WorkerStep
    \/ CallRtInit
    \/ CallRtStart
    \/ CallRtStop
    \/ CallRtPostEvent
    \/ CallRtPostEventId
    \/ CallRtReset
    \/ CallRtIsInState
    \/ CallRtGetCurrentStateName
    \/ CallRtGetStatistics
    \/ CallRtResetStatistics

SpecAdapter == InitAdapter /\ [][NextAdapter]_vars

(* ------------------------------------------------------------------ *)
(* The threads of a program that runs a started instance: the worker   *)
(* thread in worker_entry, and a thread of the application that calls  *)
(* the library                                                         *)
(* ------------------------------------------------------------------ *)

\* the largest config.queue_size of the program
MaxBacklog == 2

\* the number of events the application posts with success
MaxPosts == 2

\* the number of calls of SM_RTT_DispatchSync, SM_RTT_Reset and
\* SM_RTT_ResetStatistics the application makes
MaxCalls == 1

\* the events the application posts and dispatches: one the tables handle in
\* every state, one that no state handles while the machine is in Top, and one
\* with the id SM_RTT_Stop gives its stop event
ThreadEvents == {[id |-> i, context |-> 0] : i \in {HEv.down, HEv.up, UINT32_MAX}}

\* SM_Event stop_event = {UINT32_MAX, NULL};
stop_event == [id |-> UINT32_MAX, context |-> 0]

\* thr holds, with the position of each thread in its code, what the threads keep
\* outside the instance: the owner of the pthread mutex behind rtt.mutex, the
\* locals event_buffer and prev_state of the worker and of the caller, and the
\* history the properties are stated with: sent (SM_RTT_Stop has made its
\* rt_mq_send call), seen (the worker has locked the queue after that call, so
\* that the write of stop_requested happens before its reads), late (the worker
\* received event_buffer when stop_requested was set), posted and dispatched
\* (the events SM_RTT_PostEvent accepted and those the worker dispatched),
\* accepted and delivered (their ids, in the order of the calls), calls
\* (the calls of SM_RTT_DispatchSync, SM_RTT_Reset and SM_RTT_ResetStatistics made)
StartedThreads ==
    [owner |-> "none", worker |-> "test", caller |-> "idle",
     event_buffer |-> [id |-> 0, context |-> 0], prev_state |-> NULL, late |-> FALSE,
     seen |-> FALSE, sent |-> FALSE, event_handled |-> FALSE,
     event |-> NoEvent, caller_prev_state |-> NULL,
     posted |-> 0, dispatched |-> 0, calls |-> 0,
     accepted |-> <<>>, delivered |-> <<>>]

(* ---- rt_thread_mock.c: the mutex ---- *)

\* pthread_mutex_lock that returns although another thread holds the mutex
rt_mutex_free_always(a, t) == TRUE

\* rt_mutex_take(mutex, RT_WAITING_FOREVER) returns when no thread holds the
\* mutex; the callers skip the call for a null mutex
rt_mutex_free(a, t) == (a.mutex = NULL) \/ (t.owner = "none")

\* the owner after rt_mutex_take returned RT_EOK to thread who
rt_mutex_take(a, t, who) == IF a.mutex # NULL THEN [t EXCEPT !.owner = who] ELSE t

rt_mutex_release(a, t) == IF a.mutex # NULL THEN [t EXCEPT !.owner = "none"] ELSE t

\* stop_requested is a plain bool that SM_RTT_Stop writes and the worker reads
\* without a lock: until the worker has synchronized with the writer, its read
\* gives the old or the new value
ReadStopRequested == IF rtt.stop_requested /\ ~thr.seen THEN {TRUE, FALSE} ELSE {rtt.stop_requested}

\* the machine, the instance and the threads after a step; the record of the
\* last call is that of a program without threads and stays as it is
Stepped(c, a, t) ==
    /\ Commit(c)
    /\ rtt' = a
    /\ thr' = t
    /\ UNCHANGED <<last, pc, tables>>

\* the same after a call that returned r: its context and its instance
SteppedTo(r, t) == Stepped(r.c, r.a, t)

(* ---- worker_entry ---- *)

\* while (!rtt_sm->stop_requested)
WorkerTest ==
    /\ thr.worker = "test"
    /\ \E stop \in ReadStopRequested :
         IF stop
         THEN Stepped(Ctx, [rtt EXCEPT !.running = FALSE], [thr EXCEPT !.worker = "returned"])
         ELSE Stepped(Ctx, rtt, [thr EXCEPT !.worker = "recv"])

\* rt_mq_recv(..., RT_WAITING_FOREVER) returns the oldest message; it waits
\* while the queue is empty
WorkerRecv ==
    /\ thr.worker = "recv"
    /\ rtt.mq # <<>>
    /\ Stepped(Ctx, [rtt EXCEPT !.mq = Tail(@)],
               [thr EXCEPT !.worker = "check", !.event_buffer = Head(rtt.mq),
                           !.late = rtt.stop_requested, !.seen = @ \/ thr.sent])

\* if (rtt_sm->stop_requested || event_buffer.id == UINT32_MAX) break;
WorkerCheck ==
    /\ thr.worker = "check"
    /\ \E stop \in ReadStopRequested :
         IF stop \/ (thr.event_buffer.id = UINT32_MAX)
         THEN Stepped(Ctx, [rtt EXCEPT !.running = FALSE], [thr EXCEPT !.worker = "returned"])
         ELSE Stepped(Ctx, rtt, [thr EXCEPT !.worker = "take"])

\* dispatch_event_safe up to prev_state = rtt_sm->base_sm.currentState
WorkerTake ==
    /\ thr.worker = "take"
    /\ rt_mutex_free(rtt, thr)
    /\ Stepped(Ctx, rtt, [rt_mutex_take(rtt, thr, "worker") EXCEPT
                              !.worker = "core", !.prev_state = sm.currentState])

\* the worker after SM_Dispatch returned r: the two counters that every
\* dispatch changes
Dispatched(r, a, t) ==
    Stepped(r.c, count_processed(a, t.prev_state, r.c.sm.currentState),
            [t EXCEPT !.worker = "count", !.event_handled = r.ret, !.dispatched = @ + 1,
                      !.delivered = Append(@, t.event_buffer.id)])

\* dispatch_event_safe from SM_Dispatch to rtt_sm->stats.total_events_processed++
WorkerCore ==
    /\ thr.worker = "core"
    /\ Dispatched(settled(SM_Dispatch(Ctx, thr.event_buffer)), rtt, thr)

\* dispatch_event_safe from if (!event_handled) to rt_mutex_release
WorkerCount ==
    /\ thr.worker = "count"
    /\ Stepped(Ctx, count_unhandled(rtt, thr.event_handled),
               [rt_mutex_release(rtt, thr) EXCEPT !.worker = "stats"])

\* update_queue_stats, which gives up when it does not get the mutex in time
WorkerStats ==
    /\ thr.worker = "stats"
    /\ Stepped(Ctx, IF rt_mutex_free(rtt, thr) THEN update_queue_stats(rtt) ELSE rtt,
               [thr EXCEPT !.worker = "test"])

\* the steps of the worker outside the dispatch core
WorkerNext ==
    \/ WorkerTest
    \/ WorkerRecv
    \/ WorkerCheck
    \/ WorkerTake
    \/ WorkerCount
    \/ WorkerStats

(* ---- the calls of the application thread ---- *)

\* SM_RTT_DispatchSync up to the call of dispatch_event_safe
CallerDispatchSync ==
    /\ thr.caller = "idle"
    /\ thr.calls < MaxCalls
    /\ rtt.is_initialized
    /\ \E event \in ThreadEvents :
         Stepped(Ctx, rtt, [thr EXCEPT !.caller = "sync_take", !.event = event,
                                       !.calls = @ + 1])

CallerTake ==
    /\ thr.caller = "sync_take"
    /\ rt_mutex_free(rtt, thr)
    /\ Stepped(Ctx, rtt, [rt_mutex_take(rtt, thr, "caller") EXCEPT
                              !.caller = "sync_core", !.caller_prev_state = sm.currentState])

CallerCore ==
    /\ thr.caller = "sync_core"
    /\ SteppedTo(count_dispatch(rtt, thr.caller_prev_state, settled(SM_Dispatch(Ctx, thr.event))),
                 [rt_mutex_release(rtt, thr) EXCEPT !.caller = "idle"])

\* SM_RTT_Reset up to the call of SM_Reset
CallerReset ==
    /\ thr.caller = "idle"
    /\ thr.calls < MaxCalls
    /\ rtt.is_initialized
    /\ Stepped(Ctx, rtt, [thr EXCEPT !.caller = "reset_core", !.calls = @ + 1])

\* SM_Reset(&rtt_sm->base_sm); rtt_sm->stats.total_transitions++;
CallerResetCore ==
    /\ thr.caller = "reset_core"
    /\ SteppedTo(SM_RTT_Reset(rtt, Ctx, "rtt_sm"), [thr EXCEPT !.caller = "idle"])

\* SM_RTT_ResetStatistics up to the first assignment
CallerResetStatistics ==
    /\ thr.caller = "idle"
    /\ thr.calls < MaxCalls
    /\ rtt.is_initialized
    /\ Stepped(Ctx, rtt, [thr EXCEPT !.caller = "stats_reset", !.calls = @ + 1])

CallerResetStatisticsCore ==
    /\ thr.caller = "stats_reset"
    /\ SteppedTo(SM_RTT_ResetStatistics(rtt, Ctx, "rtt_sm"), [thr EXCEPT !.caller = "idle"])

\* SM_RTT_PostEvent up to the result of rt_mq_send; a refused event leaves
\* everything as it is
CallerPost ==
    /\ thr.caller = "idle"
    /\ thr.posted < MaxPosts
    /\ rtt.is_initialized /\ rtt.is_started
    /\ \E event \in ThreadEvents :
         /\ rt_mq_send(rtt, event).err = RT_EOK
         /\ Stepped(Ctx, rt_mq_send(rtt, event).a,
                    [thr EXCEPT !.caller = "post_stats", !.posted = @ + 1,
                                !.accepted = Append(@, event.id)])

\* the rest of SM_RTT_PostEvent: update_queue_stats
CallerPostStats ==
    /\ thr.caller = "post_stats"
    /\ Stepped(Ctx, IF rt_mutex_free(rtt, thr) THEN update_queue_stats(rtt) ELSE rtt,
               [thr EXCEPT !.caller = "idle"])

\* SM_RTT_Stop: rtt_sm->stop_requested = true;
CallerStop ==
    /\ thr.caller = "idle"
    /\ rtt.is_initialized /\ rtt.is_started
    /\ Stepped(Ctx, [rtt EXCEPT !.stop_requested = TRUE], [thr EXCEPT !.caller = "stop_send"])

\* rt_mq_send(rtt_sm->event_queue, &stop_event, sizeof(SM_Event)); the result is
\* not looked at
CallerStopSend ==
    /\ thr.caller = "stop_send"
    /\ Stepped(Ctx, rt_mq_send(rtt, stop_event).a,
               [thr EXCEPT !.caller = "stop_join", !.sent = TRUE])

\* rt_thread_delete: pthread_cancel, which acts when the thread waits in
\* pthread_cond_wait (the worker is never left waiting there: the queue holds a
\* message once rt_mq_send was called), and pthread_join, which returns when the
\* thread function has returned; then cleanup_resources and is_started = false
CallerStopJoin ==
    /\ thr.caller = "stop_join"
    /\ thr.worker = "returned"
    /\ Stepped(Ctx, [cleanup_resources([rtt EXCEPT !.worker_thread = NULL])
                       EXCEPT !.is_started = FALSE],
               [thr EXCEPT !.caller = "idle"])

\* the steps that go on with a call the application has begun, outside the
\* dispatch core and SM_Reset
CallerFinish ==
    \/ CallerTake
    \/ CallerResetStatisticsCore
    \/ CallerPostStats
    \/ CallerStopSend
    \/ CallerStopJoin

\* the program has initialized the instance in the outermost state of the
\* three-level tables and started it: SM_RTT_Init, SM_RTT_Start
StartedInstance(queue_size) ==
    LET i == SM_RTT_Init(ZeroInstance("rtt"),
                         [sm |-> ZeroSm, buf |-> [n \in 0 .. (MaxBuf - 1) |-> NULL],
                          app |-> AppZero, trace |-> <<>>, taken |-> <<>>,
                          xfer |-> <<NoFrame>>, req |-> NoEvent, calls |-> <<>>],
                         "rtt_sm", [queue_size |-> queue_size],
                         "Top", "path_buffer", MaxBuf, "app_data", "on_unhandled_event")
    IN SM_RTT_Start(i.a, i.c, "rtt_sm", "none")

InitThreads ==
    /\ tables = DeepTables
    /\ \E queue_size \in 1 .. MaxBacklog :
         /\ sm = StartedInstance(queue_size).c.sm
         /\ buf = StartedInstance(queue_size).c.buf
         /\ app = StartedInstance(queue_size).c.app
         /\ rtt = StartedInstance(queue_size).a
    /\ last = [op |-> "none"]
    /\ pc = "run"
    /\ thr = StartedThreads

NextThreads ==
    \/ WorkerTest
    \/ WorkerRecv
    \/ WorkerCheck
    \/ WorkerTake
    \/ WorkerCore
    \/ WorkerCount
    \/ WorkerStats
    \/ CallerDispatchSync
    \/ CallerTake
    \/ CallerCore
    \/ CallerReset
    \/ CallerResetCore
    \/ CallerResetStatistics
    \/ CallerResetStatisticsCore
    \/ CallerPost
    \/ CallerPostStats
    \/ CallerStop
    \/ CallerStopSend
    \/ CallerStopJoin

SpecThreads == InitThreads /\ [][NextThreads]_vars

\* the scheduler is fair to the worker thread, a call the application has begun
\* goes on whenever it can, and the callbacks of the application return: no thread
\* stays in SM_Dispatch or SM_Reset for ever (WorkerCore, CallerCore and
\* CallerResetCore can always be taken, so this is their weak fairness)
SpecThreadsFair ==
    /\ SpecThreads
    /\ WF_vars(WorkerNext)
    /\ WF_vars(CallerFinish)
    /\ []<>(thr.worker # "core")
    /\ []<>(thr.caller \notin {"sync_core", "reset_core"})

(* ------------------------------------------------------------------ *)
(* A program with a deep hierarchy, which applies find_lca to pairs of *)
(* its states                                                          *)
(* ------------------------------------------------------------------ *)

\* a chain of MaxDepth states that have an entry action and no transitions: L1
\* is the root, and L(i+1) is the child of Li
ChainName(i) == "L" \o ToString(i)

ChainNames == {ChainName(i) : i \in 1 .. MaxDepth}

ChainParent(n) ==
    LET i == CHOOSE j \in 1 .. MaxDepth : ChainName(j) = n
    IN IF i = 1 THEN NULL ELSE ChainName(i - 1)

ChainTables == [n \in ChainNames |-> StateDef(ChainParent(n), "entry_any", NULL, <<>>, n)]

\* the states find_lca is applied to: those of the three-level tables, and the
\* two outermost and the two innermost states of the chain
LcaStates ==
    DOMAIN DeepTables \cup {ChainName(i) : i \in {1, 2, MaxDepth - 1, MaxDepth}}

\* the outcomes of a call that returned r
Outcomes(r) == IF r = UNDEFINED THEN LcaStates \cup {NULL, "FAULT"} ELSE {r}

\* find_lca is not static: the program calls it for a pair of states, before
\* anything else
CallFindLca ==
    /\ pc = "setup"
    /\ last.op = "none"
    /\ \E s1, s2 \in LcaStates \cup {NULL} :
         \E r \in Outcomes(find_lca(s1, s2)) :
           last' = [op |-> "find_lca", pre |-> sm, preApp |-> app, ev |-> NoEvent,
                    st |-> NULL, bufArg |-> NULL, sizeArg |-> 0, udArg |-> NULL,
                    hookArg |-> NULL, args |-> [s1 |-> s1, s2 |-> s2], ret |-> r,
                    trace |-> <<>>, taken |-> <<>>, streak |-> 0]
    /\ UNCHANGED <<sm, buf, app, pc, rtt, tables, thr>>

\* then it sets its machine up in the outermost state of the three-level tables
LcaInit ==
    /\ pc = "setup"
    /\ Return("Init",
              SM_Init(FreshCtx, "Top", "path_buffer", MaxBuf, "app_data", "on_unhandled_event"),
              "void", NoEvent, "Top", "path_buffer", MaxBuf, "app_data", "on_unhandled_event")
    /\ pc' = "run"
    /\ UNCHANGED <<rtt, tables, thr>>

\* and dispatches the events that take the machine to Side, from there to Anon,
\* which has no ancestor in common with Side, and from Anon to LeafB
LcaDispatch ==
    /\ pc = "run"
    /\ \E id \in {HEv.toSide, HEv.up, HEv.down} :
         ReturnDispatch(SM_Dispatch(Ctx, [id |-> id, context |-> 0]), [id |-> id, context |-> 0])
    /\ UNCHANGED <<pc, rtt, tables, thr>>

InitLca ==
    /\ InitMachine
    /\ rtt = ZeroInstance("rtt")
    /\ tables = DeepTables @@ ChainTables

NextLca ==
    \/ CallFindLca
    \/ LcaInit
    \/ LcaDispatch

SpecLca == InitLca /\ [][NextLca]_vars

(* ------------------------------------------------------------------ *)
(* A program whose states have entry and exit actions of their own,    *)
(* one of which dispatches                                             *)
(* ------------------------------------------------------------------ *)

\* the machine is set up in any state, with a buffer of any size
NestInit ==
    /\ pc = "setup"
    /\ \E st \in DOMAIN NestTables, size \in 1 .. MaxBuf :
         Return("Init", SM_Init(FreshCtx, st, "path_buffer", size, "app_data", NULL),
                "void", NoEvent, st, "path_buffer", size, "app_data", NULL)
    /\ pc' = "run"
    /\ UNCHANGED <<rtt, tables, thr>>

NestDispatch ==
    /\ pc = "run"
    /\ \E id \in {NestEv.go, NestEv.hop, NestEv.back} :
         ReturnDispatch(SM_Dispatch(Ctx, [id |-> id, context |-> 0]), [id |-> id, context |-> 0])
    /\ UNCHANGED <<pc, rtt, tables, thr>>

NestReset ==
    /\ pc = "run"
    /\ Return("Reset", SM_Reset(Ctx), "void", NoEvent, NULL, NULL, 0, NULL, NULL)
    /\ UNCHANGED <<pc, rtt, tables, thr>>

InitNest ==
    /\ InitMachine
    /\ rtt = ZeroInstance("rtt")
    /\ tables = NestTables

NextNest ==
    \/ NestInit
    \/ NestDispatch
    \/ NestReset

SpecNest == InitNest /\ [][NextNest]_vars

(* ------------------------------------------------------------------ *)
(* A program that sets its machine up deep in the chain, with entry    *)
(* path buffers of up to UINT8_MAX slots                               *)
(* ------------------------------------------------------------------ *)

\* the lengths of the arrays the program has, which it passes as bufferSize
\* (a uint8_t), and the depths of the states it sets the machine up in
PathSizes == {1, 2, 127, 128, 129, 254, UINT8_MAX}

PathDepths == {1, 2, 3, 127, 128, 129, 130, 254, UINT8_MAX, MaxDepth}

\* the memory the path buffer lies in: the array, and what follows it
PathCtx == [sm |-> sm, buf |-> [i \in 0 .. UINT8_MAX |-> NULL],
            app |-> AppZero, trace |-> <<>>, taken |-> <<>>, xfer |-> <<NoFrame>>,
            req |-> NoEvent, calls |-> <<>>]

PathInit ==
    /\ pc = "setup"
    /\ \E depth \in PathDepths, size \in PathSizes :
         Return("Init", SM_Init(PathCtx, ChainName(depth), "path_buffer", size, "app_data", NULL),
                "void", NoEvent, ChainName(depth), "path_buffer", size, "app_data", NULL)
    /\ pc' = "run"
    /\ UNCHANGED <<rtt, tables, thr>>

PathReset ==
    /\ pc = "run"
    /\ Return("Reset", SM_Reset(Ctx), "void", NoEvent, NULL, NULL, 0, NULL, NULL)
    /\ UNCHANGED <<pc, rtt, tables, thr>>

InitPath ==
    /\ InitMachine
    /\ rtt = ZeroInstance("rtt")
    /\ tables = ChainTables

NextPath ==
    \/ PathInit
    \/ PathReset

SpecPath == InitPath /\ [][NextPath]_vars

(* ------------------------------------------------------------------ *)
(* Vocabulary of the properties                                        *)
(* ------------------------------------------------------------------ *)

\* the first n states of the chain from s upwards added to acc, and the state
\* that follows them
RECURSIVE ChainUp(_, _, _)
ChainUp(s, n, acc) ==
    IF (n = 0) \/ (s = NULL) THEN [set |-> acc, next |-> s]
    ELSE ChainUp(ParentOf(s), n - 1, acc \cup {s})

\* s and its ancestors
RECURSIVE AncFrom(_)
AncFrom(l) == IF l.next = NULL THEN l.set ELSE AncFrom(ChainUp(l.next, Block, l.set))

AncOrSelf(s) == AncFrom([set |-> {}, next |-> s])

Depth(s) == Cardinality(AncOrSelf(s))

\* the deepest state that is an ancestor-or-self of both, NULL when there is none
LCA(a, b) ==
    LET common == AncOrSelf(a) \cap AncOrSelf(b) IN
    IF common = {} THEN NULL
    ELSE CHOOSE x \in common : \A y \in common : Depth(y) <= Depth(x)

\* the first n states from s upwards, up to but excluding stop, added to acc,
\* and the state that follows them
RECURSIVE PathBlock(_, _, _, _)
PathBlock(s, stop, n, acc) ==
    IF (n = 0) \/ (s = NULL) \/ (s = stop) THEN [seq |-> acc, next |-> s]
    ELSE PathBlock(ParentOf(s), stop, n - 1, Append(acc, s))

RECURSIVE PathFrom(_, _)
PathFrom(l, stop) ==
    IF (l.next = NULL) \/ (l.next = stop) THEN l.seq
    ELSE PathFrom(PathBlock(l.next, stop, Block, l.seq), stop)

\* the states from s upwards, s first, up to but excluding stop
PathUp(s, stop) == PathFrom([seq |-> <<>>, next |-> s], stop)

Reverse(q) == [i \in 1 .. Len(q) |-> q[Len(q) + 1 - i]]

IsKind(k, e) == e.kind = k

\* the callbacks of one kind in a trace, in order of invocation
OfKind(tr, k) == SelectSeq(tr, LAMBDA e : IsKind(k, e))

StatesOf(tr) == [i \in 1 .. Len(tr) |-> tr[i].state]

HasExit(s) == StateTable[s].exitAction # NULL

HasEntry(s) == StateTable[s].entryAction # NULL

\* the states of a path whose exit (entry) action is defined
WithExit(path) == SelectSeq(path, HasExit)

WithEntry(path) == SelectSeq(path, HasEntry)

ExitsBeforeEntries(tr) ==
    \A i, j \in 1 .. Len(tr) : (tr[i].kind = "exit" /\ tr[j].kind = "entry") => i < j

\* the table entry the last dispatch executed, when it executed exactly one
TakenOne == Len(last.taken) = 1

TakenTransition == StateTable[last.taken[1][1]].transitions[last.taken[1][2]]

\* the last call performed an external transition: source state A and target B
LastIsTransition ==
    \/ last.op = "Init" /\ last.st # NULL /\ last.bufArg # NULL /\ last.sizeArg > 0
    \/ last.op = "Reset" /\ last.pre.initialState # NULL
    \/ last.op = "Dispatch" /\ TakenOne /\ TakenTransition.type = SM_TRANSITION_EXTERNAL
                            /\ TakenTransition.target # NULL

LastSource == IF last.op = "Init" THEN NULL ELSE last.pre.currentState

LastTarget ==
    CASE last.op = "Init"     -> last.st
      [] last.op = "Reset"    -> last.pre.initialState
      [] last.op = "Dispatch" -> TakenTransition.target

(* ------------------------------------------------------------------ *)
(* Properties                                                          *)
(* ------------------------------------------------------------------ *)

\* C1: an external transition from the current state A to a target B # A with
\* lowest common ancestor L, whose entry path fits the buffer, invokes the exit
\* actions of the states from A up to but excluding L, innermost first, then the
\* entry actions of the states from below L down to B, outermost first, and ends
\* with currentState = B; A is the current state also when the transition was
\* found in the table of an ancestor.
C1_ExitEntryPaths ==
    (LastIsTransition /\ LastTarget # LastSource
       /\ sm.bufferSize >= Len(PathUp(LastTarget, LCA(LastSource, LastTarget))))
    => LET L == LCA(LastSource, LastTarget) IN
       /\ StatesOf(OfKind(last.trace, "exit")) = WithExit(PathUp(LastSource, L))
       /\ StatesOf(OfKind(last.trace, "entry")) = WithEntry(Reverse(PathUp(LastTarget, L)))
       /\ ExitsBeforeEntries(last.trace)
       /\ sm.currentState = LastTarget

\* C1 witness: a dispatch handled by an ancestor's table that exits one state or
\* more and enters two or more
C1_Witness ==
    /\ last.op = "Dispatch" /\ LastIsTransition /\ LastTarget # LastSource
    /\ last.taken[1][1] # LastSource
    /\ Len(OfKind(last.trace, "exit")) >= 1
    /\ Len(OfKind(last.trace, "entry")) >= 2
    /\ sm.currentState = LastTarget

\* the entries of the table of s that carry the event's id
Matching(s, event) ==
    {i \in 1 .. Len(StateTable[s].transitions) : StateTable[s].transitions[i].eventId = event.id}

\* the guard of a table entry, evaluated on the application data the call started with
GuardPasses(tr, event) ==
    (tr.guard = NULL) \/ GuardResult(tr.guard, [app |-> last.preApp], event)

\* the entries of the table of s with the event's id and a passing (or no) guard
Passing(s, event) ==
    {i \in Matching(s, event) : GuardPasses(StateTable[s].transitions[i], event)}

Min(set) == CHOOSE x \in set : \A y \in set : x <= y

\* the deepest state of a non-empty set of states of one chain
Deepest(set) == CHOOSE x \in set : \A y \in set : Depth(y) <= Depth(x)

LastIsDispatch == (last.op = "Dispatch") /\ (last.ev # NoEvent)

\* C2: with two entries for one event id in the current state's table, the first
\* with a failing guard and a later one with a passing (or no) guard, SM_Dispatch
\* executes the later entry (its action, its target, returns true) and the first
\* entry's action does not fire.
C2_GuardFallthrough ==
    (LastIsDispatch /\ last.pre.currentState # NULL
       /\ Matching(last.pre.currentState, last.ev) # {}
       /\ Passing(last.pre.currentState, last.ev) # {}
       /\ Min(Matching(last.pre.currentState, last.ev)) \notin Passing(last.pre.currentState, last.ev))
    => LET s == last.pre.currentState
           first == Min(Matching(s, last.ev))
           second == Min(Passing(s, last.ev))
           tr == StateTable[s].transitions[second]
       IN /\ last.ret = "true"
          /\ last.taken = <<(<<s, second>>)>>
          /\ \A i \in 1 .. Len(last.trace) :
                ~(last.trace[i].kind = "action" /\ last.trace[i].state = s /\ last.trace[i].idx = first)
          /\ (tr.type = SM_TRANSITION_EXTERNAL /\ tr.target # NULL
                /\ sm.bufferSize >= Len(PathUp(tr.target, LCA(s, tr.target))))
             => sm.currentState = tr.target

\* C3: when the current state's table has no entry for the event and an ancestor
\* has one whose guard passes, SM_Dispatch executes the entry of the nearest such
\* ancestor and returns true, no guard or action of another state of the chain
\* is invoked, and the exit walk starts at the current state.
C3_Bubbling ==
    (LastIsDispatch /\ last.pre.currentState # NULL
       /\ Matching(last.pre.currentState, last.ev) = {}
       /\ \E n \in AncOrSelf(last.pre.currentState) : Passing(n, last.ev) # {})
    => LET A == last.pre.currentState
           N == Deepest({n \in AncOrSelf(A) : Passing(n, last.ev) # {}})
           tr == StateTable[N].transitions[Min(Passing(N, last.ev))]
           exits == OfKind(last.trace, "exit")
       IN /\ last.ret = "true"
          /\ last.taken = <<(<<N, Min(Passing(N, last.ev))>>)>>
          /\ \A i \in 1 .. Len(last.trace) :
                (last.trace[i].kind \in {"guard", "action"}) => (last.trace[i].state = N)
          /\ (tr.type = SM_TRANSITION_EXTERNAL /\ tr.target # NULL
                /\ A \notin AncOrSelf(tr.target) /\ HasExit(A))
             => (Len(exits) >= 1 /\ exits[1].state = A)

\* C4: a dispatched event that selects an internal transition invokes that
\* transition's action, if it has one, and nothing else: no entry action, no exit
\* action, no hook; currentState is unchanged whatever the target field holds,
\* and SM_Dispatch returns true.
C4_InternalTransition ==
    (LastIsDispatch /\ TakenOne /\ TakenTransition.type = SM_TRANSITION_INTERNAL)
    => LET acts == OfKind(last.trace, "action") IN
       /\ OfKind(last.trace, "entry") = <<>>
       /\ OfKind(last.trace, "exit") = <<>>
       /\ OfKind(last.trace, "hook") = <<>>
       /\ IF TakenTransition.action = NULL
          THEN acts = <<>>
          ELSE /\ Len(acts) = 1
               /\ acts[1].fn = TakenTransition.action
               /\ <<acts[1].state, acts[1].idx>> = last.taken[1]
       /\ sm.currentState = last.pre.currentState
       /\ last.ret = "true"

\* C4 witness: an internal transition found in a parent's table, with an action
\* and a non-null target other than the current state
C4_Witness ==
    /\ LastIsDispatch /\ TakenOne /\ TakenTransition.type = SM_TRANSITION_INTERNAL
    /\ TakenTransition.target \notin {NULL, last.pre.currentState}
    /\ TakenTransition.action # NULL
    /\ last.taken[1][1] # last.pre.currentState
    /\ sm.currentState = last.pre.currentState

\* C5: an external transition whose target is the current state invokes the exit
\* action and then the entry action of that state, once each, and no exit or
\* entry action of an ancestor; currentState is unchanged.
C5_SelfTransition ==
    (LastIsDispatch /\ TakenOne /\ TakenTransition.type = SM_TRANSITION_EXTERNAL
       /\ TakenTransition.target = last.pre.currentState)
    => LET S == last.pre.currentState IN
       /\ StatesOf(OfKind(last.trace, "exit")) = WithExit(<<S>>)
       /\ StatesOf(OfKind(last.trace, "entry")) = WithEntry(<<S>>)
       /\ ExitsBeforeEntries(last.trace)
       /\ sm.currentState = S

\* C5 witness: a self-transition of a nested state that has both actions
C5_Witness ==
    /\ LastIsDispatch /\ TakenOne /\ TakenTransition.type = SM_TRANSITION_EXTERNAL
    /\ TakenTransition.target = last.pre.currentState
    /\ ParentOf(last.pre.currentState) # NULL
    /\ HasExit(ParentOf(last.pre.currentState)) /\ HasEntry(ParentOf(last.pre.currentState))
    /\ StatesOf(OfKind(last.trace, "exit")) = <<last.pre.currentState>>
    /\ StatesOf(OfKind(last.trace, "entry")) = <<last.pre.currentState>>

\* C6: when no state of the current state's chain has an entry with the event's
\* id and a passing guard, SM_Dispatch returns false, leaves currentState alone,
\* invokes no entry, exit or transition action, and invokes the unhandled-event
\* hook (when one is registered) exactly once, with the dispatched event and with
\* currentState still the state the dispatch started in.
C6_Unhandled ==
    (LastIsDispatch /\ \A s \in AncOrSelf(last.pre.currentState) : Passing(s, last.ev) = {})
    => LET hooks == OfKind(last.trace, "hook") IN
       /\ last.ret = "false"
       /\ sm.currentState = last.pre.currentState
       /\ last.taken = <<>>
       /\ \A i \in 1 .. Len(last.trace) : last.trace[i].kind \in {"guard", "hook"}
       /\ IF last.pre.unhandledEventHook # NULL
          THEN /\ Len(hooks) = 1
               /\ hooks[1].fn = last.pre.unhandledEventHook
               /\ hooks[1].ev = last.ev
               /\ hooks[1].cur = last.pre.currentState
               /\ last.trace[Len(last.trace)].kind = "hook"
          ELSE hooks = <<>>

\* C6 witness: a matching entry exists but its guard rejects, and the hook runs
C6_Witness ==
    /\ LastIsDispatch /\ last.ret = "false"
    /\ Len(OfKind(last.trace, "guard")) >= 1
    /\ Len(OfKind(last.trace, "hook")) = 1
    /\ last.pre.currentState # NULL
    /\ sm.currentState = last.pre.currentState

\* SM_Init was called with parameters it accepts
LastIsValidInit ==
    (last.op = "Init") /\ (last.st # NULL) /\ (last.bufArg # NULL) /\ (last.sizeArg > 0)

\* C7: an SM_Init with valid parameters and a buffer that holds the initial
\* state's chain invokes the entry actions of that chain, outermost first, and
\* no other callback, ends with currentState = initialState, and every entry
\* action already sees the userData and the hook given to SM_Init.
C7_InitEntersChain ==
    (LastIsValidInit /\ last.sizeArg >= Depth(last.st))
    => /\ StatesOf(last.trace) = WithEntry(Reverse(PathUp(last.st, NULL)))
       /\ \A i \in 1 .. Len(last.trace) :
             /\ last.trace[i].kind = "entry"
             /\ last.trace[i].ud = last.udArg
             /\ last.trace[i].hk = last.hookArg
       /\ sm.currentState = last.st
       /\ sm.initialState = last.st

\* C7 witness: SM_Init into a state three levels deep, with userData and a hook
C7_Witness ==
    /\ LastIsValidInit /\ Depth(last.st) = 3 /\ last.sizeArg >= 3
    /\ last.udArg # NULL /\ last.hookArg # NULL
    /\ Len(last.trace) = 3
    /\ sm.currentState = last.st

\* the last call was SM_Reset on an instance whose initial transition completed
LastIsReset == (last.op = "Reset") /\ (last.pre.currentState # NULL)

EntryInvoked(s) == \E i \in 1 .. Len(last.trace) :
                      last.trace[i].kind = "entry" /\ last.trace[i].state = s

ExitInvoked(s) == \E i \in 1 .. Len(last.trace) :
                     last.trace[i].kind = "exit" /\ last.trace[i].state = s

ProperAncestors(s) == AncOrSelf(s) \ {s}

C10_DeinitClears ==
    /\ (last.op = "Deinit")
       => /\ last.trace = <<>>
          /\ sm = ZeroSm
          /\ SM_GetCurrentStateName(Ctx) = "Unknown"
    /\ (last.op = "GetCurrentStateName" /\ pc = "done") => last.ret = "Unknown"

\* C10 witness: SM_Deinit of an instance whose active state has an exit action
C10_Witness ==
    /\ last.op = "Deinit"
    /\ last.pre.currentState # NULL /\ HasExit(last.pre.currentState)
    /\ last.pre.userData # NULL /\ last.pre.unhandledEventHook # NULL
    /\ sm.currentState = NULL

\* the entry path of the last transition is longer than the buffer
LastOverflows ==
    LastIsTransition /\ LastTarget # LastSource
    /\ sm.bufferSize < Len(PathUp(LastTarget, LCA(LastSource, LastTarget)))

\* C11: a transition (of SM_Dispatch, SM_Reset or SM_Init) whose entry path, from
\* the target up to but excluding the LCA, is longer than bufferSize runs the exit
\* actions and then aborts: currentState keeps its value from before the call
\* (the null pointer for SM_Init) and no entry action is invoked.
C11_OverflowAborts ==
    LastOverflows
    => /\ sm.currentState = LastSource
       /\ OfKind(last.trace, "entry") = <<>>
       /\ StatesOf(OfKind(last.trace, "exit"))
             = WithExit(PathUp(LastSource, LCA(LastSource, LastTarget)))

\* C11 witness: a dispatched transition that ran an exit action and then found its
\* entry path too long for the buffer
C11_Witness ==
    /\ last.op = "Dispatch" /\ LastOverflows
    /\ Len(OfKind(last.trace, "exit")) >= 1
    /\ sm.currentState = last.pre.currentState

\* C12: SM_IsInState returns true exactly when the candidate is the current state
\* or one of its ancestors, and false when there is no current state.
C12_IsInState ==
    (last.op = "IsInState")
    => /\ (last.ret = "true") <=> (last.st \in AncOrSelf(sm.currentState))
       /\ (sm.currentState = NULL) => (last.ret = "false")

\* C12 witness: SM_IsInState answers true for a proper ancestor of the current state
C12_Witness ==
    /\ last.op = "IsInState" /\ last.ret = "true"
    /\ sm.currentState # NULL /\ last.st # sm.currentState
    /\ last.st = ParentOf(ParentOf(sm.currentState))

\* C13: SM_Init with a null initial state, a null buffer or bufferSize 0 changes
\* no field of the instance and invokes no callback.
C13_InvalidInitNoop ==
    (last.op = "Init" /\ ~LastIsValidInit)
    => /\ sm = last.pre
       /\ last.trace = <<>>
       /\ sm.currentState = NULL /\ sm.initialState = NULL

\* C13 witness: SM_Init with a state that has an entry action, a buffer, and size 0
C13_Witness ==
    /\ last.op = "Init" /\ last.st # NULL /\ HasEntry(last.st)
    /\ last.bufArg # NULL /\ last.sizeArg = 0
    /\ sm = ZeroSm

\* position of a callback kind in the order of one transition
KindRank(k) ==
    CASE k = "guard"  -> 0
      [] k = "action" -> 1
      [] k = "exit"   -> 2
      [] k = "entry"  -> 3
      [] OTHER        -> 4

\* C14: in an external transition selected by SM_Dispatch the guards are
\* evaluated first, then the transition's action runs, then the exit actions,
\* then the entry actions; the guard, the action and the exit actions see
\* currentState = source, the entry actions see currentState = target.
C14_CallbackOrder ==
    (LastIsDispatch /\ TakenOne /\ TakenTransition.type = SM_TRANSITION_EXTERNAL)
    => LET tr == last.trace
           t == TakenTransition
       IN /\ \A i, j \in 1 .. Len(tr) : (i < j) => (KindRank(tr[i].kind) <= KindRank(tr[j].kind))
          /\ (t.guard # NULL)
                => \E i \in 1 .. Len(tr) : /\ tr[i].kind = "guard" /\ tr[i].fn = t.guard
                                          /\ tr[i].state = last.taken[1][1]
                                          /\ tr[i].idx = last.taken[1][2]
          /\ (t.action # NULL)
                => /\ Len(OfKind(tr, "action")) = 1
                   /\ OfKind(tr, "action")[1].fn = t.action
          /\ \A i \in 1 .. Len(tr) :
                /\ (tr[i].kind \in {"guard", "action", "exit"}) => (tr[i].cur = last.pre.currentState)
                /\ (tr[i].kind = "entry") => (tr[i].cur = t.target /\ sm.currentState = t.target)

\* C14 witness: a guarded external transition with an action that exits one state
\* and enters another
C14_Witness ==
    /\ LastIsDispatch /\ TakenOne /\ TakenTransition.type = SM_TRANSITION_EXTERNAL
    /\ TakenTransition.guard # NULL /\ TakenTransition.action # NULL
    /\ TakenTransition.target # last.pre.currentState
    /\ Len(OfKind(last.trace, "exit")) >= 1
    /\ Len(OfKind(last.trace, "entry")) >= 1
    /\ sm.currentState = TakenTransition.target

\* C15: one SM_Dispatch executes at most one transition: the walk stops at the
\* state that handles the event, at most one transition action runs, no guard of
\* a state above the handling state is evaluated, and SM_Dispatch returns true
\* exactly when a transition was executed.
C15_OneTransition ==
    LastIsDispatch
    => /\ Len(last.taken) <= 1
       /\ (last.ret = "true") <=> TakenOne
       /\ Len(OfKind(last.trace, "action")) <= 1
       /\ TakenOne => \A i \in 1 .. Len(last.trace) :
                         (last.trace[i].kind \in {"guard", "action"})
                            => (last.taken[1][1] \in AncOrSelf(last.trace[i].state))

\* C15 witness: the current state handles an event for which an ancestor's table
\* also holds a passing entry with an action
C15_Witness ==
    /\ LastIsDispatch /\ TakenOne /\ last.taken[1][1] = last.pre.currentState
    /\ \E n \in ProperAncestors(last.pre.currentState) :
          \E i \in Passing(n, last.ev) : StateTable[n].transitions[i].action # NULL
    /\ last.ret = "true"

\* C16: when every entry for the event in the current state's table has a
\* failing guard and an ancestor's table holds an entry for it whose guard passes
\* or is absent, SM_Dispatch executes that entry of the nearest such ancestor
\* and returns true, and no action of a rejected entry runs.
C16_RejectBubbles ==
    (LastIsDispatch /\ last.pre.currentState # NULL
       /\ Matching(last.pre.currentState, last.ev) # {}
       /\ Passing(last.pre.currentState, last.ev) = {}
       /\ \E n \in ProperAncestors(last.pre.currentState) : Passing(n, last.ev) # {})
    => LET A == last.pre.currentState
           N == Deepest({n \in ProperAncestors(A) : Passing(n, last.ev) # {}})
       IN /\ last.ret = "true"
          /\ last.taken = <<(<<N, Min(Passing(N, last.ev))>>)>>
          /\ \A i \in 1 .. Len(last.trace) :
                (last.trace[i].kind = "action")
                   => (last.trace[i].state = N /\ last.trace[i].idx = Min(Passing(N, last.ev)))

\* C18: on an instance that was never initialized or has been deinitialized,
\* SM_Dispatch and SM_IsInState return false, SM_GetCurrentStateName returns
\* "Unknown", SM_Reset does nothing, and none of them invokes a callback or
\* changes a field.
C18_UninitializedNoop ==
    (pc # "run" /\ last.op \in {"Dispatch", "IsInState", "Reset", "GetCurrentStateName"})
    => /\ sm = ZeroSm /\ last.pre = ZeroSm
       /\ app = last.preApp
       /\ last.trace = <<>> /\ last.taken = <<>>
       /\ (last.op \in {"Dispatch", "IsInState"}) => (last.ret = "false")
       /\ (last.op = "GetCurrentStateName") => (last.ret = "Unknown")

\* C18 witness: an event dispatched to an instance after SM_Deinit
C18_Witness ==
    /\ pc = "done" /\ last.op = "Dispatch" /\ last.ev # NoEvent
    /\ last.ret = "false" /\ sm = ZeroSm

(* ------------------------------------------------------------------ *)
(* C17: what a callback and a dispatch nested in it see                 *)
(* ------------------------------------------------------------------ *)

\* the callbacks of transitions, at any nesting depth, of the last call
IsTransitionCallback(e) ==
    \/ (e.kind = "entry") /\ (e.tgt # NULL)
    \/ (e.kind = "exit") /\ (e.tgt # NULL)
    \/ e.kind = "action"

\* the state the callback is to observe: the target in an entry action, the
\* source in an exit action and in the transition action
ExpectedCurrent(e) == IF e.kind = "entry" THEN e.tgt ELSE e.src

\* trace[i] is an SM_Dispatch issued by the callback trace[i - 1]
IsNestedDispatchAt(tr, i) ==
    /\ i > 1
    /\ tr[i].kind = "dispatch"
    /\ IsTransitionCallback(tr[i - 1])
    /\ tr[i].depth = tr[i - 1].depth + 1

\* C17 as stated: in every entry action of a transition to T currentState is T,
\* in the transition action and in every exit action it is the source state,
\* and a dispatch issued by the callback starts at that state
C17_EntrySeesTarget ==
    (last.op \in {"Dispatch", "Reset"}) =>
        \A i \in 1 .. Len(last.trace) :
            /\ IsTransitionCallback(last.trace[i]) =>
                   last.trace[i].cur = ExpectedCurrent(last.trace[i])
            /\ IsNestedDispatchAt(last.trace, i) =>
                   last.trace[i].cur = ExpectedCurrent(last.trace[i - 1])

\* C17 (amended): the same, for the callbacks before which no dispatch nested in
\* an earlier callback of the same transition has changed currentState
C17_UndisturbedSeesTarget ==
    (last.op \in {"Dispatch", "Reset"}) =>
        \A i \in 1 .. Len(last.trace) :
            /\ (IsTransitionCallback(last.trace[i]) /\ ~last.trace[i].dist) =>
                   last.trace[i].cur = ExpectedCurrent(last.trace[i])
            /\ (IsNestedDispatchAt(last.trace, i) /\ ~last.trace[i - 1].dist) =>
                   last.trace[i].cur = ExpectedCurrent(last.trace[i - 1])

\* an entry action of a transition between two states has dispatched an event,
\* and the nested dispatch has taken a transition out of the target
C17_Witness ==
    /\ last.op = "Dispatch"
    /\ \E i \in 2 .. Len(last.trace) : \E j \in (i + 1) .. Len(last.trace) :
          /\ IsNestedDispatchAt(last.trace, i)
          /\ last.trace[i - 1].kind = "entry"
          /\ last.trace[i - 1].src # last.trace[i - 1].tgt
          /\ ~last.trace[i - 1].dist
          /\ last.trace[j].kind = "exit"
          /\ last.trace[j].depth = last.trace[i].depth
          /\ last.trace[j].src = last.trace[i - 1].tgt
          /\ last.trace[j].state = last.trace[i - 1].tgt

(* ------------------------------------------------------------------ *)
(* C19: a failing adapter initialization has no side effect            *)
(* ------------------------------------------------------------------ *)

LastIsAdapterInit == last.op \in {"SM_RTT_Init", "SM_RT_Init"}

\* the last call was given a null instance, configuration, state or buffer
LastInitNullArg ==
    \/ last.args.rtt_sm = NULL
    \/ last.args.initial_state = NULL
    \/ last.args.entry_path_buffer = NULL
    \/ (last.op = "SM_RTT_Init") /\ (last.args.config = NoConfig)

\* the last call was given a buffer_size, or a queue_size, of 0
LastInitZeroSize ==
    \/ last.args.buffer_size = 0
    \/ (last.op = "SM_RTT_Init") /\ (last.args.config.queue_size = 0)

\* the last adapter call left the instance, its base machine, the path buffer and
\* the application data as they were, and invoked no callback
LastChangedNothing ==
    /\ rtt = last.preRtt
    /\ sm = last.pre
    /\ buf = last.preBuf
    /\ app = last.preApp
    /\ last.trace = <<>>

\* C19: SM_RTT_Init and SM_RT_Init return the null-pointer code for a null
\* instance, configuration, state or buffer, else the invalid-parameter code for a
\* buffer_size or queue_size of 0, else the already-initialized code for an instance
\* that is initialized; and whenever they do not return success no entry action has
\* run and the instance (current state, statistics, flags, handles) is unchanged
C19_InitFailsClean ==
    LastIsAdapterInit =>
        /\ LastInitNullArg => (last.ret = SM_RTT_RESULT_ERROR_NULL_PTR)
        /\ (~LastInitNullArg /\ LastInitZeroSize) => (last.ret = SM_RTT_RESULT_ERROR_INVALID)
        /\ (~LastInitNullArg /\ ~LastInitZeroSize /\ last.preRtt.is_initialized)
               => (last.ret = SM_RTT_RESULT_ERROR_ALREADY_INIT)
        /\ (~LastInitNullArg /\ ~LastInitZeroSize /\ ~last.preRtt.is_initialized)
               => (last.ret = SM_RTT_RESULT_SUCCESS)
        /\ (last.ret # SM_RTT_RESULT_SUCCESS) => LastChangedNothing

\* SM_RTT_Init with valid arguments was refused for a started instance that has
\* processed an event and is in another state than the initial one, whose entry
\* action the call would have run
C19_Witness ==
    /\ last.op = "SM_RTT_Init"
    /\ last.ret = SM_RTT_RESULT_ERROR_ALREADY_INIT
    /\ ~LastInitNullArg /\ ~LastInitZeroSize
    /\ HasEntry(last.args.initial_state)
    /\ rtt.is_started
    /\ rtt.stats.total_events_processed > 0
    /\ sm.currentState # last.args.initial_state

(* ------------------------------------------------------------------ *)
(* C20: the lifecycle of an adapter instance                           *)
(* ------------------------------------------------------------------ *)

\* the calls of the adapter API, but for the initialization
LifecycleOps ==
    {"SM_RTT_Deinit", "SM_RTT_Start", "SM_RTT_Stop", "SM_RTT_DispatchSync", "SM_RTT_PostEvent",
     "SM_RTT_PostEventId", "SM_RTT_Reset", "SM_RTT_IsInState", "SM_RTT_GetCurrentStateName",
     "SM_RTT_GetStatistics", "SM_RTT_ResetStatistics",
     "SM_RT_Start", "SM_RT_Stop", "SM_RT_PostEvent", "SM_RT_PostEventId", "SM_RT_Reset",
     "SM_RT_IsInState", "SM_RT_GetCurrentStateName", "SM_RT_GetStatistics",
     "SM_RT_ResetStatistics"}

StartOps == {"SM_RTT_Start", "SM_RT_Start"}

\* the operations that need a started instance
StartedOps == {"SM_RTT_Stop", "SM_RTT_PostEvent", "SM_RTT_PostEventId",
               "SM_RT_Stop", "SM_RT_PostEvent", "SM_RT_PostEventId"}

\* no pointer argument of the last call was null
LastArgsValid ==
    \A x \in DOMAIN last.args :
        IF x = "event" THEN last.args[x] # NoEvent
        ELSE IF x \in {"rtt_sm", "state", "is_in_state", "out"} THEN last.args[x] # NULL
        ELSE TRUE

\* the codes with which a call is rejected for the state the instance is in
LifecycleCodes ==
    {SM_RTT_RESULT_ERROR_NOT_INIT, SM_RTT_RESULT_ERROR_ALREADY_STARTED,
     SM_RTT_RESULT_ERROR_NOT_STARTED}

LastPostedToStarted ==
    /\ last.op = "SM_RTT_PostEvent"
    /\ LastArgsValid
    /\ last.preRtt.is_initialized
    /\ last.preRtt.is_started

\* C21: SM_RTT_PostEvent for a started instance returns (the action that models
\* the call has no guard on the queue, so the call is never kept waiting) with
\* the queue-full code and the queue as it was if the queue held queue_size events
\* already, and with success if it did not; it returns success exactly if the
\* queue is the one before the call with the event appended, and a queue never
\* holds more than queue_size events
C21_PostNeverDrops ==
    /\ Len(rtt.mq) <= rtt.config.queue_size
    /\ LastPostedToStarted =>
        /\ (Len(last.preRtt.mq) >= last.preRtt.config.queue_size)
               => /\ last.ret = SM_RTT_RESULT_ERROR_QUEUE_FULL
                  /\ rtt.mq = last.preRtt.mq
        /\ (Len(last.preRtt.mq) < last.preRtt.config.queue_size)
               => (last.ret = SM_RTT_RESULT_SUCCESS)
        /\ (last.ret = SM_RTT_RESULT_SUCCESS)
               <=> (rtt.mq = Append(last.preRtt.mq, last.args.event))
        /\ (last.ret # SM_RTT_RESULT_SUCCESS) => LastChangedNothing

\* an event was refused by a queue that holds queue_size events
C21_Witness ==
    /\ LastPostedToStarted
    /\ last.ret = SM_RTT_RESULT_ERROR_QUEUE_FULL
    /\ rtt.config.queue_size > 0
    /\ Len(rtt.mq) = rtt.config.queue_size

(* ------------------------------------------------------------------ *)
(* C26: what stats.total_transitions counts                            *)
(* ------------------------------------------------------------------ *)

\* the operations of the RT-Thread adapter that run a transition: the
\* synchronous dispatch, an iteration of the worker, and the reset
CountedOps == {"SM_RTT_DispatchSync", "worker_entry", "SM_RTT_Reset"}

\* the last operation, if it is one of ops, has increased total_transitions by one
\* if it left another current state than it found, and not at all otherwise
TransitionsCounted(ops) ==
    (last.op \in ops) =>
        rtt.stats.total_transitions =
            last.preRtt.stats.total_transitions
              + (IF sm.currentState # last.pre.currentState THEN 1 ELSE 0)

\* C26: a synchronous dispatch, a dispatch of the worker and SM_RTT_Reset each
\* increase stats.total_transitions by exactly one if currentState after the
\* operation differs from currentState before it, and leave it unchanged otherwise
C26_CountsStateChanges == TransitionsCounted(CountedOps)

(* ------------------------------------------------------------------ *)
(* C27: SM_RTT_Deinit                                                  *)
(* ------------------------------------------------------------------ *)

\* the last call was SM_RTT_Deinit for an instance
LastIsRttDeinit == (last.op = "SM_RTT_Deinit") /\ (last.args.rtt_sm # NULL)

\* C27: SM_RTT_Deinit succeeds for an initialized instance, started or not: it
\* leaves no worker (the worker of a started instance has been asked to stop and
\* is gone), is_initialized and is_started false, the thread, queue and mutex
\* handles null and the base machine cleared, and it invokes no callback, so no
\* exit action; for an instance that is not initialized, as after a first
\* SM_RTT_Deinit, it returns not-initialized and changes nothing
C27_Deinit ==
    LastIsRttDeinit =>
        /\ last.preRtt.is_initialized =>
              /\ last.ret = SM_RTT_RESULT_SUCCESS
              /\ ~rtt.is_initialized
              /\ ~rtt.is_started
              /\ last.preRtt.is_started => (rtt.stop_requested /\ ~rtt.running)
              /\ rtt.worker_thread = NULL
              /\ rtt.event_queue = NULL
              /\ rtt.mutex = NULL
              /\ sm = ZeroSm
              /\ last.trace = <<>>
        /\ ~last.preRtt.is_initialized =>
              /\ last.ret = SM_RTT_RESULT_ERROR_NOT_INIT
              /\ LastChangedNothing

\* a started instance with an event in its queue, whose machine was in a state
\* that has an exit action, has been deinitialized
C27_Witness ==
    /\ LastIsRttDeinit
    /\ last.ret = SM_RTT_RESULT_SUCCESS
    /\ last.preRtt.is_started
    /\ last.preRtt.running
    /\ last.preRtt.mq # <<>>
    /\ HasExit(last.pre.currentState)

(* ------------------------------------------------------------------ *)
(* C28: find_lca                                                       *)
(* ------------------------------------------------------------------ *)

\* r is what find_lca is to return for a and b: nothing if one of them is null or
\* if they have no ancestor in common, else their deepest common ancestor-or-self,
\* which is the common one that has all the common ones as ancestors-or-self
IsLca(r, a, b) ==
    IF AncOrSelf(a) \cap AncOrSelf(b) = {} THEN r = NULL
    ELSE (r \in LcaStates) /\ (AncOrSelf(r) = AncOrSelf(a) \cap AncOrSelf(b))

\* the last call performed a transition between two states that have no
\* ancestor in common
LastIsDisjointTransition ==
    /\ LastIsTransition
    /\ LastSource # NULL
    /\ AncOrSelf(LastSource) \cap AncOrSelf(LastTarget) = {}

\* a transition between states without a common ancestor has invoked the exit
\* actions of the source state and all its ancestors, then the entry actions of
\* all the ancestors of the target and of the target
DisjointExitsAll ==
    LastIsDisjointTransition =>
        /\ StatesOf(OfKind(last.trace, "exit")) = WithExit(PathUp(LastSource, NULL))
        /\ StatesOf(OfKind(last.trace, "entry")) = WithEntry(Reverse(PathUp(LastTarget, NULL)))
        /\ ExitsBeforeEntries(last.trace)
        /\ sm.currentState = LastTarget

FindLcaWithinUint8 ==
    /\ ((last.op = "find_lca") /\ (Depth(last.args.s1) <= UINT8_MAX)
            /\ (Depth(last.args.s2) <= UINT8_MAX))
           => IsLca(last.ret, last.args.s1, last.args.s2)
    /\ DisjointExitsAll

\* find_lca has found the second state of a chain for the state at depth
\* UINT8_MAX of it and a state in between, which it had to level first
DeepLcaFound ==
    /\ last.op = "find_lca"
    /\ Depth(last.args.s1) = UINT8_MAX
    /\ Depth(last.args.s2) = 2
    /\ last.ret = last.args.s2

(* ------------------------------------------------------------------ *)
(* C29: a dispatch nested in an entry action                           *)
(* ------------------------------------------------------------------ *)

\* the nesting depth of the dispatch that starts at trace[i]; position 0 stands
\* for the call the caller made
CallDepth(tr, i) == IF i = 0 THEN 0 ELSE tr[i].depth

IsCallStart(tr, i) == (i = 0) \/ (tr[i].kind = "dispatch")

\* trace[j] is an exit or entry action invoked by the dispatch that starts at
\* trace[i] itself, not by one nested in it or following it
OwnCallback(tr, i, j) ==
    /\ j > i
    /\ tr[j].kind \in {"exit", "entry"}
    /\ tr[j].depth = CallDepth(tr, i)
    /\ \A k \in (i + 1) .. (j - 1) :
          ~((tr[k].kind \in {"dispatch", "return"}) /\ (tr[k].depth = CallDepth(tr, i)))

\* the functions of one kind that the dispatch starting at trace[i] invoked, in
\* order of invocation
OwnFns(tr, i, kind) ==
    LET own == SelectSeq([j \in 1 .. Len(tr) |-> j],
                         LAMBDA j : OwnCallback(tr, i, j) /\ (tr[j].kind = kind))
    IN [n \in 1 .. Len(own) |-> tr[own[n]].fn]

\* the exit path and the entry path of a transition from src to tgt
ExitPath(src, tgt) == IF src = tgt THEN <<src>> ELSE PathUp(src, LCA(src, tgt))

EntryPath(src, tgt) == IF src = tgt THEN <<tgt>> ELSE Reverse(PathUp(tgt, LCA(src, tgt)))

\* the exit actions and the entry actions a transition from src to tgt is to
\* invoke; it invokes no entry action when the path does not fit the buffer
ExitFns(src, tgt) ==
    LET path == SelectSeq(ExitPath(src, tgt), LAMBDA s : tables[s].exitAction # NULL)
    IN [n \in 1 .. Len(path) |-> tables[path[n]].exitAction]

EntryFns(src, tgt) ==
    LET path == SelectSeq(EntryPath(src, tgt), LAMBDA s : tables[s].entryAction # NULL)
    IN IF (src # tgt) /\ (Len(EntryPath(src, tgt)) > sm.bufferSize) THEN <<>>
       ELSE [n \in 1 .. Len(path) |-> tables[path[n]].entryAction]

\* C29: every transition of the last call, that of the caller's dispatch and
\* those of the dispatches nested in entry actions, has invoked exactly the exit
\* actions of its exit path and exactly the entry actions of its entry path,
\* each once and in order, whatever the dispatches nested in it did
C29_NestedKeepsEntryPath ==
    \A i \in 0 .. Len(last.trace) : \A j \in 1 .. Len(last.trace) :
        (IsCallStart(last.trace, i) /\ OwnCallback(last.trace, i, j)
             /\ (last.trace[j].tgt # NULL)) =>
            /\ OwnFns(last.trace, i, "exit") = ExitFns(last.trace[j].src, last.trace[j].tgt)
            /\ OwnFns(last.trace, i, "entry") = EntryFns(last.trace[j].src, last.trace[j].tgt)

(* ------------------------------------------------------------------ *)
(* C30: the active configuration                                       *)
(* ------------------------------------------------------------------ *)

\* the depth of the deepest state of the tables
HierarchyDepth ==
    CHOOSE d \in 1 .. MaxDepth :
        /\ \E s \in DOMAIN tables : Depth(s) = d
        /\ \A s \in DOMAIN tables : Depth(s) <= d

\* the states whose entering and leaving can both be observed
Observed == {s \in DOMAIN tables : (tables[s].entryAction # NULL) /\ (tables[s].exitAction # NULL)}

\* the entry and exit actions of a trace from position i on, applied to the set
\* of states that have been entered more recently than exited: an entry action
\* adds its state, an exit action removes it, and ok says that no observed state
\* was entered while in the set or exited while not in it
RECURSIVE Replay(_, _, _)
Replay(tr, i, r) ==
    IF i > Len(tr) THEN r
    ELSE IF tr[i].kind = "entry"
    THEN Replay(tr, i + 1,
                [ok |-> r.ok /\ ((tr[i].state \in Observed) => (tr[i].state \notin r.set)),
                 set |-> r.set \cup {tr[i].state}])
    ELSE IF tr[i].kind = "exit"
    THEN Replay(tr, i + 1,
                [ok |-> r.ok /\ ((tr[i].state \in Observed) => (tr[i].state \in r.set)),
                 set |-> r.set \ {tr[i].state}])
    ELSE Replay(tr, i + 1, r)

\* the active states before the last call: none before SM_Init, else the
\* ancestor-or-self chain of the state the machine was in
ActiveBefore == IF last.op = "Init" THEN {} ELSE AncOrSelf(last.pre.currentState)

\* the last call was SM_Init, SM_Dispatch or SM_Reset on a machine that has a
\* state and a buffer as large as the hierarchy is deep
LastKeptConfiguration ==
    /\ last.op \in {"Init", "Dispatch", "Reset"}
    /\ sm.currentState # NULL
    /\ sm.bufferSize >= HierarchyDepth

\* C30: when SM_Init, SM_Dispatch or SM_Reset has returned (buffer as large as
\* the hierarchy is deep, no nested dispatch), the states entered more recently
\* than exited are those of the ancestor-or-self chain of currentState, and the
\* entry and exit actions of each state alternate, an entry first: the call
\* starts from the chain of the state before it, every exit action it invokes
\* is of a state that is active, every entry action of one that is not, and it
\* ends with the chain of currentState
C30_ActiveConfiguration ==
    LastKeptConfiguration =>
        /\ Replay(last.trace, 1, [ok |-> TRUE, set |-> ActiveBefore]).ok
        /\ Replay(last.trace, 1, [ok |-> TRUE, set |-> ActiveBefore]).set \cap Observed
               = AncOrSelf(sm.currentState) \cap Observed

\* a dispatch has left an observed state and entered two observed ones
C30_Witness ==
    /\ LastKeptConfiguration
    /\ last.op = "Dispatch"
    /\ \E i \in 1 .. Len(last.trace) :
          (last.trace[i].kind = "exit") /\ (last.trace[i].state \in Observed)
    /\ Cardinality({i \in 1 .. Len(last.trace) :
            (last.trace[i].kind = "entry") /\ (last.trace[i].state \in Observed)}) >= 2

(* ------------------------------------------------------------------ *)
(* C22: synchronous dispatch and the dispatch of the worker            *)
(* ------------------------------------------------------------------ *)

\* the worker is between rt_mutex_take and rt_mutex_release of
\* dispatch_event_safe, where it runs SM_Dispatch and updates the statistics
WorkerInDispatch == thr.worker = "core"

\* the thread of the application is there, in SM_RTT_DispatchSync
CallerInDispatch == thr.caller = "sync_core"

\* C22: while the instance is started, the dispatch of SM_RTT_DispatchSync and the
\* worker's dispatch of a queued event are never in progress at the same time:
\* each thread holds the instance mutex from before SM_Dispatch until after the
\* update of the statistics
C22_DispatchesExclude ==
    rtt.is_started =>
        /\ ~(WorkerInDispatch /\ CallerInDispatch)
        /\ WorkerInDispatch => (thr.owner = "worker")
        /\ CallerInDispatch => (thr.owner = "caller")

\* the worker has an event to dispatch and waits for the mutex, which the
\* thread in SM_RTT_DispatchSync holds
C22_Witness ==
    /\ rtt.is_started
    /\ thr.worker = "take"
    /\ CallerInDispatch
    /\ thr.owner = "caller"

(* ------------------------------------------------------------------ *)
(* C23: the operations that mutate the instance                        *)
(* ------------------------------------------------------------------ *)

\* the thread of the application is in the part of SM_RTT_DispatchSync,
\* SM_RTT_Reset or SM_RTT_ResetStatistics that writes the base machine or the
\* statistics
CallerMutates == thr.caller \in {"sync_core", "reset_core", "stats_reset"}

\* C23: every operation that mutates the instance, SM_RTT_Reset and
\* SM_RTT_ResetStatistics included, does so while it holds the instance mutex,
\* and so never while the worker is in a dispatch
C23_MutationsHoldMutex ==
    rtt.is_started =>
        /\ CallerMutates => (thr.owner = "caller")
        /\ WorkerInDispatch => (thr.owner = "worker")
        /\ ~(CallerMutates /\ WorkerInDispatch)

(* ------------------------------------------------------------------ *)
(* C24: SM_RTT_Stop                                                    *)
(* ------------------------------------------------------------------ *)

\* the worker has decided to dispatch the event in event_buffer
WorkerDispatching == thr.worker \in {"take", "core"}

\* C24 (the worker's part): the worker dispatches neither the stop event nor an
\* event it received after SM_RTT_Stop had set stop_requested
C24_NoDispatchAfterStop ==
    WorkerDispatching => ((thr.event_buffer.id # UINT32_MAX) /\ ~thr.late)

\* the part of SM_RTT_Stop: once it has set stop_requested it goes on to the
\* end, whatever the queue holds, and leaves is_started false
StopCompletes ==
    (thr.caller = "stop_send") ~> ((thr.caller = "idle") /\ ~rtt.is_started)

\* SM_RTT_Stop has found the queue full, so that its stop event was refused, and
\* waits for the worker
StopSendRefused ==
    /\ thr.caller = "stop_join"
    /\ Len(rtt.mq) = rtt.max_msgs
    /\ \A i \in 1 .. Len(rtt.mq) : rtt.mq[i].id # UINT32_MAX

(* ------------------------------------------------------------------ *)
(* C25: delivery                                                       *)
(* ------------------------------------------------------------------ *)

\* C25: while SM_RTT_Stop is not called, the worker eventually dispatches every
\* event SM_RTT_PostEvent has accepted: the k-th accepted event is followed by
\* the k-th dispatch of the worker
C25_Delivery ==
    \A k \in 1 .. MaxPosts :
        (thr.posted >= k) ~> ((thr.dispatched >= k) \/ rtt.stop_requested)

\* the same for the events posted as long as no event with the id of the stop
\* event has been accepted
PostedStopId ==
    \/ \E i \in 1 .. Len(rtt.mq) : rtt.mq[i].id = UINT32_MAX
    \/ (thr.worker \in {"check", "returned"}) /\ (thr.event_buffer.id = UINT32_MAX)

DeliveryOfOtherIds ==
    \A k \in 1 .. MaxPosts :
        (thr.posted >= k) ~> ((thr.dispatched >= k) \/ rtt.stop_requested \/ PostedStopId)

(* ------------------------------------------------------------------ *)
(* C31: the current state of an initialized machine                    *)
(* ------------------------------------------------------------------ *)

\* the targets of the transitions in the tables
Targets ==
    UNION {{tables[s].transitions[i].target : i \in 1 .. Len(tables[s].transitions)} :
             s \in DOMAIN tables} \ {NULL}

\* a call of SM_Dispatch or SM_Reset on a machine that has a current state
CurrentStateKept ==
    ((sm.currentState # NULL) /\ (last'.op \in {"Dispatch", "Reset"}))
    => /\ sm'.currentState # NULL
       /\ sm'.currentState \in {sm'.initialState} \cup Targets

\* an SM_Init whose initial transition completed
InitCompletes ==
    ((last'.op = "Init") /\ (sm'.currentState # NULL))
    => (sm'.currentState = sm'.initialState)

\* C31: from an SM_Init whose initial transition completed to the next SM_Deinit,
\* currentState is never the null pointer, whatever SM_Dispatch and SM_Reset
\* calls are made, and it is initialState or the target of a transition of the
\* tables.
C31_CurrentStateValid == [][CurrentStateKept /\ InitCompletes]_vars

\* C31 witness: a dispatch whose transition was aborted for lack of room left
\* the machine in a state other than its initial state
C31_Witness ==
    /\ last.op = "Dispatch" /\ LastOverflows
    /\ sm.currentState # NULL
    /\ sm.currentState # sm.initialState

(* ------------------------------------------------------------------ *)
(* C32: transitions to an ancestor and to a descendant                 *)
(* ------------------------------------------------------------------ *)

\* the last call performed an external transition to a proper ancestor of the
\* current state
LastGoesUp == LastIsTransition /\ (LastTarget \in ProperAncestors(LastSource))

\* the last call performed an external transition to a proper descendant of the
\* current state
LastGoesDown ==
    LastIsTransition /\ (LastSource # NULL) /\ (LastSource \in ProperAncestors(LastTarget))

\* C32: an external transition to a proper ancestor of the current state exits
\* the states strictly below the target and enters nothing: the target is neither
\* exited nor entered. An external transition to a proper descendant of the
\* current state exits nothing, and enters only states strictly below the
\* current state (all of them, outermost first, when the path fits the buffer).
C32_AncestorDescendant ==
    /\ LastGoesUp =>
          /\ StatesOf(OfKind(last.trace, "exit")) = WithExit(PathUp(LastSource, LastTarget))
          /\ OfKind(last.trace, "entry") = <<>>
          /\ \A i \in 1 .. Len(last.trace) : last.trace[i].state # LastTarget
          /\ sm.currentState = LastTarget
    /\ LastGoesDown =>
          /\ OfKind(last.trace, "exit") = <<>>
          /\ \A i \in 1 .. Len(last.trace) :
                (last.trace[i].kind = "entry") =>
                    (LastSource \in ProperAncestors(last.trace[i].state))
          /\ (sm.bufferSize >= Len(PathUp(LastTarget, LastSource))) =>
                /\ StatesOf(OfKind(last.trace, "entry"))
                      = WithEntry(Reverse(PathUp(LastTarget, LastSource)))
                /\ sm.currentState = LastTarget

\* C32 witness: a dispatch in LeafA that an ancestor's table sends to Top, two
\* levels up, both of whose substates have an exit action
C32_Witness ==
    /\ last.op = "Dispatch" /\ LastGoesUp
    /\ Len(OfKind(last.trace, "exit")) = 2
    /\ HasExit(LastTarget) /\ HasEntry(LastTarget)

\* a dispatch in Top that enters Mid and LeafA
DescentEntersTwo ==
    /\ last.op = "Dispatch" /\ LastGoesDown
    /\ HasExit(LastSource)
    /\ Len(OfKind(last.trace, "entry")) = 2

(* ------------------------------------------------------------------ *)
(* C33: what the calls leave alone                                     *)
(* ------------------------------------------------------------------ *)

\* SM_Init with valid arguments stores them
InitStoresArguments ==
    ((last'.op = "Init") /\ (last'.st # NULL) /\ (last'.bufArg # NULL) /\ (last'.sizeArg > 0))
    => /\ sm'.initialState = last'.st
       /\ sm'.userData = last'.udArg
       /\ sm'.unhandledEventHook = last'.hookArg
       /\ sm'.entryPathBuffer = last'.bufArg
       /\ sm'.bufferSize = last'.sizeArg

\* SM_Dispatch and SM_Reset leave every field but currentState as it was
DispatchResetKeepFields ==
    (last'.op \in {"Dispatch", "Reset"})
    => ([sm' EXCEPT !.currentState = sm.currentState] = sm)

\* SM_IsInState and SM_GetCurrentStateName leave the instance, the buffer and the
\* application data as they were
QueriesChangeNothing ==
    (last'.op \in {"IsInState", "GetCurrentStateName"})
    => ((sm' = sm) /\ (buf' = buf) /\ (app' = app))

\* C33: SM_Dispatch and SM_Reset change only currentState and the content of the
\* entry-path buffer: initialState, userData, the hook, the buffer pointer and
\* bufferSize keep the values SM_Init was given, through every sequence of
\* dispatches and resets until SM_Deinit; SM_IsInState and
\* SM_GetCurrentStateName change nothing.
C33_FieldsKept ==
    [][InitStoresArguments /\ DispatchResetKeepFields /\ QueriesChangeNothing]_vars

\* C33 witness: a dispatch nobody handled called the hook of an instance that
\* was reset and had changed state before, and the fields are those of SM_Init
C33_Witness ==
    /\ last.op = "Dispatch" /\ last.ret = "false"
    /\ Len(OfKind(last.trace, "hook")) = 1
    /\ sm.currentState # sm.initialState
    /\ sm.unhandledEventHook = "on_unhandled_event" /\ sm.userData = "app_data"
    /\ sm.bufferSize = MaxBuf

(* ------------------------------------------------------------------ *)
(* C40: external transition without a target                           *)
(* ------------------------------------------------------------------ *)

\* the last dispatch executed one table entry of type external whose target is NULL
LastHasNoTarget ==
    /\ last.op = "Dispatch" /\ TakenOne
    /\ TakenTransition.type = SM_TRANSITION_EXTERNAL
    /\ TakenTransition.target = NULL

\* C40: an external transition whose target is NULL behaves like an internal
\* one: its action (if any) runs, no exit or entry action is called,
\* currentState is unchanged and SM_Dispatch returns true.
C40_NullTargetIsInternal ==
    LastHasNoTarget
    => /\ last.ret = "true"
       /\ sm.currentState = last.pre.currentState
       /\ OfKind(last.trace, "exit") = <<>>
       /\ OfKind(last.trace, "entry") = <<>>
       /\ OfKind(last.trace, "hook") = <<>>
       /\ LET actions == OfKind(last.trace, "action") IN
          IF TakenTransition.action = NULL
          THEN actions = <<>>
          ELSE /\ Len(actions) = 1
               /\ actions[1].fn = TakenTransition.action
               /\ actions[1].state = last.taken[1][1]

\* C40 witness: the entry of a state that has an entry action, below a state
\* that has an exit action, ran its action and nothing else
C40_Witness ==
    /\ LastHasNoTarget
    /\ TakenTransition.action # NULL
    /\ Len(last.trace) = 1 /\ last.trace[1].kind = "action"
    /\ HasEntry(last.pre.currentState)
    /\ HasExit(StateTable[last.pre.currentState].parent)

(* ------------------------------------------------------------------ *)
(* C37: the end of the worker thread                                   *)
(* ------------------------------------------------------------------ *)

\* C37: the worker leaves its loop only after SM_RTT_Stop has requested it,
\* whatever ids the application posts: a worker that has returned belongs to an
\* instance whose stop_requested is set.
C37_WorkerLeavesOnStop ==
    (thr.worker = "returned") => rtt.stop_requested

\* the same for the runs in which the worker received no event that has the id
\* of the stop event
WorkerLeavesOnStopOtherIds ==
    ((thr.worker = "returned") /\ (thr.event_buffer.id # UINT32_MAX)) => rtt.stop_requested

\* the worker has left its loop on an application event while the instance is
\* started and no stop was requested
WorkerGoneWhileStarted ==
    /\ thr.worker = "returned"
    /\ rtt.is_started /\ ~rtt.stop_requested
    /\ thr.caller = "idle"

(* ------------------------------------------------------------------ *)
(* C36: the counters of the adapter                                    *)
(* ------------------------------------------------------------------ *)

\* C36: in every reachable state of the adapter, under every interleaving of the
\* worker's dispatch, SM_RTT_DispatchSync and SM_RTT_ResetStatistics,
\* stats.total_events_unhandled <= stats.total_events_processed.
C36_UnhandledAtMostProcessed ==
    rtt.stats.total_events_unhandled <= rtt.stats.total_events_processed

\* the same outside the worker's counting and for runs without SM_RTT_ResetStatistics
UnhandledAtMostProcessedQuiet ==
    (thr.calls = 0) => C36_UnhandledAtMostProcessed

\* the counters were set to zero between the two increments of the worker
CountersCrossed ==
    /\ rtt.stats.total_events_unhandled = 1
    /\ rtt.stats.total_events_processed = 0
    /\ thr.worker = "stats"

(* ------------------------------------------------------------------ *)
(* C38: the order of the posted events                                 *)
(* ------------------------------------------------------------------ *)

\* p is the beginning of q
IsPrefix(p, q) == (Len(p) <= Len(q)) /\ (SubSeq(q, 1, Len(p)) = p)

\* the ids of the events in the queue
Waiting == [i \in 1 .. Len(rtt.mq) |-> rtt.mq[i].id]

\* the event the worker has received and not yet dispatched
InHand == IF thr.worker \in {"check", "take", "core"} THEN <<thr.event_buffer.id>> ELSE <<>>

LastEntersFromRoot ==
    /\ LastIsTransition
    /\ LastSource = NULL
    /\ Depth(LastTarget) <= sm.bufferSize

\* C35: for every path length n with 1 <= n <= bufferSize <= 255,
\* execute_entry_actions calls the entry actions of all n buffered states,
\* outermost first; for n in 128..255 the signed 8-bit index does not wrap and
\* skip them after currentState was updated.
C35_AllEntered ==
    LastEntersFromRoot
    => /\ sm.currentState = LastTarget
       /\ StatesOf(OfKind(last.trace, "entry"))
            = SelectSeq(Reverse(PathUp(LastTarget, NULL)),
                        LAMBDA s : tables[s].entryAction # NULL)


\* the same for the paths of at most 128 states
AllEnteredUpTo128 ==
    (LastEntersFromRoot /\ (Depth(LastTarget) <= 128))
    => /\ sm.currentState = LastTarget
       /\ StatesOf(OfKind(last.trace, "entry"))
            = SelectSeq(Reverse(PathUp(LastTarget, NULL)),
                        LAMBDA s : tables[s].entryAction # NULL)

\* SM_Init has made a state 129 deep the current state and called no entry action
EntriesSkipped ==
    /\ last.op = "Init"
    /\ sm.currentState = ChainName(129) /\ sm.bufferSize = 129
    /\ last.trace = <<>>

\* SM_Init has called the 128 entry actions of a path of 128 states
Entered128 ==
    /\ last.op = "Init"
    /\ sm.currentState = ChainName(128) /\ sm.bufferSize = 128
    /\ Len(OfKind(last.trace, "entry")) = 128

(* ------------------------------------------------------------------ *)
(* C34: the slots of the entry path buffer                             *)
(* ------------------------------------------------------------------ *)

\* the memory from slot bufferSize on is as it was handed to SM_Init
NoWriteBeyondBuffer ==
    (sm.entryPathBuffer # NULL)
    => \A i \in DOMAIN buf : (i >= sm.bufferSize) => (buf[i] = NULL)

\* the states entered by a call that was not a self-transition are those of the
\* slots below bufferSize, from slot k - 1 down to slot 0, and those slots were
\* written
ReadsWrittenSlots ==
    LET entries == StatesOf(OfKind(last.trace, "entry"))
        k == Len(entries)
    IN (LastIsTransition /\ (LastSource # LastTarget))
       => /\ k <= sm.bufferSize
          /\ \A i \in 1 .. k : (buf[k - i] # NULL) /\ (entries[i] = buf[k - i])

\* a transition that was aborted has written the slots below bufferSize only,
\* has read none and has left the current state as it was
AbortWritesWithin ==
    (LastIsTransition /\ (LastSource = NULL) /\ (Depth(LastTarget) > sm.bufferSize))
    => /\ last.trace = <<>>
       /\ sm.currentState = NULL
       /\ \A i \in 0 .. (sm.bufferSize - 1) : buf[i] # NULL

\* C34: for every depth, target and bufferSize in 1..255 no operation writes or
\* reads the entry path buffer at an index >= bufferSize, and every slot read by
\* execute_entry_actions was written by build_entry_path before; also when the
\* transition is aborted for lack of capacity.
C34_BufferBounds == NoWriteBeyondBuffer /\ ReadsWrittenSlots /\ AbortWritesWithin

\* C34 witness: SM_Init into a state 256 deep with a buffer of 255 slots was
\* aborted after it had written every slot
C34_Witness ==
    /\ last.op = "Init" /\ last.st = ChainName(MaxDepth)
    /\ sm.bufferSize = UINT8_MAX
    /\ sm.currentState = NULL
    /\ buf[UINT8_MAX - 1] = ChainName(MaxDepth - (UINT8_MAX - 1))
    /\ buf[UINT8_MAX] = NULL

\* the 128 slots of a buffer were written and read
ReadAll128 ==
    /\ last.op = "Init" /\ last.st = ChainName(128)
    /\ sm.bufferSize = 128
    /\ Len(OfKind(last.trace, "entry")) = 128
    /\ buf[127] = ChainName(1)

(* ------------------------------------------------------------------ *)
(* C39: the adapter of state_machine_rt.c and the core                 *)
(* ------------------------------------------------------------------ *)

\* the step has left the machine, the buffer and the application data as the
\* core function that returned c leaves them, and has invoked the same callbacks
AsTheCore(c) ==
    /\ sm' = c.sm
    /\ buf' = c.buf
    /\ app' = c.app
    /\ last'.trace = c.trace
    /\ last'.taken = c.taken

RtSucceeded(op) == (last'.op = op) /\ (last'.ret = SM_RT_RESULT_SUCCESS)

RtInitAsCore ==
    RtSucceeded("SM_RT_Init")
    => AsTheCore(run_calls(SM_Init(Ctx, last'.args.initial_state, last'.args.entry_path_buffer,
                                   last'.args.buffer_size, "app_data", "on_unhandled_event")))

\* the event is processed when the call returns: the callbacks of the whole
\* dispatch were invoked and the event was counted
RtPostEventAsCore ==
    RtSucceeded("SM_RT_PostEvent")
    => /\ AsTheCore(settled(SM_Dispatch(Ctx, last'.args.event)).c)
       /\ rtt'.stats.total_events_processed = rtt.stats.total_events_processed + 1

RtResetAsCore ==
    RtSucceeded("SM_RT_Reset") => AsTheCore(run_calls(SM_Reset(Ctx)))

====
